---------------------------- MODULE Spec2Model ----------------------------
(***************************************************************************)
(* Single-turn solver of the dicee engine (packages/engine): the canonical *)
(* dice configurations, the scoring rules, keep patterns, the transition   *)
(* table and TurnSolver.                                                   *)
(*                                                                         *)
(* Numbers.  The engine computes probabilities and expected values in f64. *)
(* Every probability it forms is m / 6^k (k <= 5) and every expected value *)
(* with at most two rolls remaining is n / 6^10, so the model keeps them   *)
(* exactly: a Probability is its numerator over Scale = 6^5, and an f64    *)
(* value v is the pair <<hi, lo>> with v = (hi * Scale + lo) / Scale^2,    *)
(* 0 <= lo < Scale (two digits in base Scale, because the numerator of     *)
(* 50 over 6^10 does not fit TLC's 32-bit integers).                       *)
(***************************************************************************)
EXTENDS Integers, Sequences, FiniteSets, TLC

VARIABLES
    config,           \* the dice of the turn state a caller holds
    rolls_remaining,  \* its rolls remaining
    available,        \* the bits of the CategorySet the caller passes
    cache,            \* TurnSolver.cache
    partial,          \* the PartialDice a caller has built, if any
    response,         \* what the last call returned
    served,           \* history: the solver has served a call before
    once,             \* the LazyLock of TRANSITION_TABLE: its state and its value
    threads,          \* the threads that access TRANSITION_TABLE
    iterator          \* a KeepPatternIterator a caller drives, if any

vars == <<config, rolls_remaining, available, cache, partial, response, served,
          once, threads, iterator>>

-----------------------------------------------------------------------------
(* Bounds of the model *)

\* how many of the multi-category sets of MixedSets the callers draw from
MaxMixed == 4

\* how many threads access TRANSITION_TABLE
MaxThreads == 3

\* how often next is called on an iterator that has returned None
MaxNone == 2

-----------------------------------------------------------------------------
(* core/category.rs *)

Ones == 0
Twos == 1
Threes == 2
Fours == 3
Fives == 4
Sixes == 5
ThreeOfAKind == 6
FourOfAKind == 7
FullHouse == 8
SmallStraight == 9
LargeStraight == 10
Dicee == 11
Chance == 12

\* Category::COUNT
CATEGORY_COUNT == 13

\* Category::ALL as the set of the enum's discriminants
Categories == 0 .. (CATEGORY_COUNT - 1)

RECURSIVE Pow2(_)
Pow2(n) == IF n = 0 THEN 1 ELSE 2 * Pow2(n - 1)

\* Category::mask: 1u16 << (self as u8)
mask(category) == Pow2(category)

\* CategorySet::ALL_MASK = (1u16 << 13) - 1
ALL_MASK == Pow2(13) - 1

\* CategorySet::EMPTY
EMPTY == 0

\* CategorySet::contains: (bits & mask) != 0
contains(bits, category) == (bits \div mask(category)) % 2 = 1

\* CategorySet::with: bits | mask
with(bits, category) == IF contains(bits, category) THEN bits ELSE bits + mask(category)

\* CategorySet::is_empty
is_empty(bits) == bits = 0

\* CategorySet::all, upper_only, lower_only
all == ALL_MASK
upper_only == 63
lower_only == 8128

\* CategorySetIter: the categories of the set, lowest bit first
RECURSIVE iter_from(_, _)
iter_from(bits, index) ==
    IF index >= CATEGORY_COUNT THEN <<>>
    ELSE IF contains(bits, index) THEN <<index>> \o iter_from(bits, index + 1)
    ELSE iter_from(bits, index + 1)

iter(bits) == iter_from(bits, 0)

-----------------------------------------------------------------------------
(* core/config.rs *)

NumDice == 5
NumFaces == 6
Faces == 1 .. NumFaces

\* ConfigIndex::COUNT
COUNT == 252

\* const FACTORIALS: [u32; 6] of config.rs, indexed from 0
CONFIG_FACTORIALS == <<1, 1, 2, 6, 24, 120>>

\* generate_all_configs: the nested while loops c0, c1, ..., c4 with c5 the rest,
\* in loop order
RECURSIVE generate_from(_, _, _)
generate_from(prefix, face, remaining) ==
    IF face = NumFaces THEN << Append(prefix, remaining) >>
    ELSE LET RECURSIVE loop(_)
             loop(c) == IF c > remaining THEN <<>>
                        ELSE generate_from(Append(prefix, c), face + 1, remaining - c)
                                 \o loop(c + 1)
         IN  loop(0)

generate_all_configs == generate_from(<<>>, 1, NumDice)

\* pub static ALL_CONFIGS: [DiceConfig; 252]; index i of the array is ALL_CONFIGS[i + 1]
ALL_CONFIGS == generate_all_configs

ConfigSet == {ALL_CONFIGS[i] : i \in 1 .. Len(ALL_CONFIGS)}

\* DiceConfig::ZERO
DiceConfig_ZERO == <<0, 0, 0, 0, 0, 0>>

\* type Dice = [u8; 5]: the ordered rolls of five dice
DiceSet == [1 .. NumDice -> Faces]

\* DiceConfig::from_dice: counts[d - 1] += 1 for each die, in u8
RECURSIVE from_dice_loop(_, _, _)
from_dice_loop(dice, i, counts) ==
    IF i > NumDice THEN counts
    ELSE from_dice_loop(dice, i + 1, [counts EXCEPT ![dice[i]] = (@ + 1) % 256])

from_dice(dice) == from_dice_loop(dice, 1, DiceConfig_ZERO)

\* DiceConfig::count
count(c, face) == c[face]

\* result /= FACTORIALS[c] for the counts from face j on (u32 division)
RECURSIVE divide_factorials(_, _, _)
divide_factorials(result, counts, j) ==
    IF j > NumFaces THEN result
    ELSE divide_factorials(result \div CONFIG_FACTORIALS[counts[j] + 1], counts, j + 1)

\* multiplicity starting from 6! instead of 5!
multiplicity_from_720(c) == divide_factorials(720, c, 1)

\* DiceConfig::multiplicity
multiplicity(c) == divide_factorials(120, c, 1)

\* generate_multiplicities, and pub static CONFIG_MULTIPLICITIES: [u32; 252];
\* index i of the array is CONFIG_MULTIPLICITIES[i + 1]
generate_multiplicities ==
    [i \in 1 .. COUNT |-> divide_factorials(120, generate_all_configs[i], 1)]

CONFIG_MULTIPLICITIES == generate_multiplicities

\* DiceConfig::sum (u8 arithmetic)
sum(c) == (c[1] + 2 * c[2] + 3 * c[3] + 4 * c[4] + 5 * c[5] + 6 * c[6]) % 256

\* maximum of two numbers
Max(a, b) == IF a >= b THEN a ELSE b

\* DiceConfig::max_count
max_count(c) == Max(c[1], Max(c[2], Max(c[3], Max(c[4], Max(c[5], c[6])))))

\* DiceConfig::mode_face: best_face starts at 6 and the loop goes down from face
\* 5 to face 1, taking a face whenever its count is >= best_count
mode_face(c) ==
    LET visit(best, face) == IF c[face] >= best[2] THEN <<face, c[face]>> ELSE best
    IN  visit(visit(visit(visit(visit(<<6, c[6]>>, 5), 4), 3), 2), 1)[1]

\* DiceConfig::is_yahtzee, which scoring/rules.rs calls is_dicee
is_dicee(c) == max_count(c) = 5

\* is_full_house taking five of a kind for a full house too
is_full_house_or_five(c) ==
    LET has_three == \E f \in Faces : c[f] = 3
        has_two   == \E f \in Faces : c[f] = 2
    IN  (has_three /\ has_two) \/ max_count(c) = 5

\* DiceConfig::is_full_house
is_full_house(c) ==
    LET has_three == \E f \in Faces : c[f] = 3
        has_two   == \E f \in Faces : c[f] = 2
    IN  has_three /\ has_two

\* DiceConfig::to_index: scan iter_all for the configuration, counting
ToIndexScan(c) == CHOOSE index \in 0 .. (Len(ALL_CONFIGS) - 1) : ALL_CONFIGS[index + 1] = c

ConfigIndexOf == [c \in ConfigSet |-> ToIndexScan(c)]

to_index(c) == ConfigIndexOf[c]

\* from_index reading the array from its end
from_index_reversed(index) == ALL_CONFIGS[COUNT - index]

\* DiceConfig::from_index
from_index(index) == ALL_CONFIGS[index + 1]

-----------------------------------------------------------------------------
(* scoring/rules.rs *)

\* ScoreResult::valid, ScoreResult::invalid
ScoreResult_valid(s) == [score |-> s, valid |-> TRUE]
ScoreResult_invalid == [score |-> 0, valid |-> FALSE]

\* score_upper_u8 calling a score of 0 invalid
score_upper_u8_invalid_zero(c, face) ==
    [score |-> (face * count(c, face)) % 256, valid |-> count(c, face) > 0]

\* score_upper_u8: face * count in u8
score_upper_u8(c, face) ==
    LET s == (face * count(c, face)) % 256
    IN  IF count(c, face) > 0 THEN ScoreResult_valid(s)
        ELSE [score |-> 0, valid |-> TRUE]

\* score_n_of_kind_u8
score_n_of_kind_u8(c, n) ==
    IF max_count(c) >= n THEN ScoreResult_valid(sum(c)) ELSE ScoreResult_invalid

\* has_small_straight without the run 3-4-5-6
has_small_straight_two_runs(c) ==
    LET has(face) == count(c, face) > 0
    IN  \/ has(1) /\ has(2) /\ has(3) /\ has(4)
        \/ has(2) /\ has(3) /\ has(4) /\ has(5)

\* has_small_straight
has_small_straight(c) ==
    LET has(face) == count(c, face) > 0
    IN  \/ has(1) /\ has(2) /\ has(3) /\ has(4)
        \/ has(2) /\ has(3) /\ has(4) /\ has(5)
        \/ has(3) /\ has(4) /\ has(5) /\ has(6)

\* has_large_straight
has_large_straight(c) ==
    LET has(face) == count(c, face) > 0
    IN  \/ has(1) /\ has(2) /\ has(3) /\ has(4) /\ has(5)
        \/ has(2) /\ has(3) /\ has(4) /\ has(5) /\ has(6)

\* score(config, category): the solver's scoring function
score(c, category) ==
    CASE category = Ones   -> score_upper_u8(c, 1)
      [] category = Twos   -> score_upper_u8(c, 2)
      [] category = Threes -> score_upper_u8(c, 3)
      [] category = Fours  -> score_upper_u8(c, 4)
      [] category = Fives  -> score_upper_u8(c, 5)
      [] category = Sixes  -> score_upper_u8(c, 6)
      [] category = ThreeOfAKind -> score_n_of_kind_u8(c, 3)
      [] category = FourOfAKind  -> score_n_of_kind_u8(c, 4)
      [] category = FullHouse ->
            IF is_full_house(c) THEN ScoreResult_valid(25) ELSE ScoreResult_invalid
      [] category = SmallStraight ->
            IF has_small_straight(c) THEN ScoreResult_valid(30) ELSE ScoreResult_invalid
      [] category = LargeStraight ->
            IF has_large_straight(c) THEN ScoreResult_valid(40) ELSE ScoreResult_invalid
      [] category = Dicee ->
            IF is_dicee(c) THEN ScoreResult_valid(50) ELSE ScoreResult_invalid
      [] category = Chance -> ScoreResult_valid(sum(c))

\* score_config(config, category) of rules.rs, for the types::Category of the same
\* index: ScoringResult with a u16 score, from the helpers score_upper,
\* score_n_of_kind, score_full_house, score_small_straight, score_large_straight,
\* score_dicee and score_chance
score_config(c, category) ==
    LET has(face) == count(c, face) > 0
        ScoringResult(s, v) == [category |-> category, score |-> s, valid |-> v]
        score_upper(face) == ScoringResult((face * count(c, face)) % 65536, count(c, face) > 0)
        score_n_of_kind(n) ==
            IF max_count(c) >= n THEN ScoringResult(sum(c), TRUE) ELSE ScoringResult(0, FALSE)
        score_full_house ==
            IF is_full_house(c) THEN ScoringResult(25, TRUE) ELSE ScoringResult(0, FALSE)
        has_small == \/ has(1) /\ has(2) /\ has(3) /\ has(4)
                     \/ has(2) /\ has(3) /\ has(4) /\ has(5)
                     \/ has(3) /\ has(4) /\ has(5) /\ has(6)
        score_small_straight ==
            IF has_small THEN ScoringResult(30, TRUE) ELSE ScoringResult(0, FALSE)
        has_large == \/ has(1) /\ has(2) /\ has(3) /\ has(4) /\ has(5)
                     \/ has(2) /\ has(3) /\ has(4) /\ has(5) /\ has(6)
        score_large_straight ==
            IF has_large THEN ScoringResult(40, TRUE) ELSE ScoringResult(0, FALSE)
        score_dicee ==
            IF is_dicee(c) THEN ScoringResult(50, TRUE) ELSE ScoringResult(0, FALSE)
        score_chance == ScoringResult(sum(c), TRUE)
    IN  CASE category = Ones   -> score_upper(1)
          [] category = Twos   -> score_upper(2)
          [] category = Threes -> score_upper(3)
          [] category = Fours  -> score_upper(4)
          [] category = Fives  -> score_upper(5)
          [] category = Sixes  -> score_upper(6)
          [] category = ThreeOfAKind  -> score_n_of_kind(3)
          [] category = FourOfAKind   -> score_n_of_kind(4)
          [] category = FullHouse     -> score_full_house
          [] category = SmallStraight -> score_small_straight
          [] category = LargeStraight -> score_large_straight
          [] category = Dicee         -> score_dicee
          [] category = Chance        -> score_chance

-----------------------------------------------------------------------------
(* scoring/mod.rs and scoring.rs *)

\* scoring::score(dice, category) of scoring/mod.rs
scoring_score(dice, category) == score_config(from_dice(dice), category)

\* score(dice, category) of scoring.rs, the array-based scoring, with its helpers
\* count_dice and sum_dice (u16)
scoring_rs_score(dice, category) ==
    LET counts == from_dice_loop(dice, 1, <<0, 0, 0, 0, 0, 0>>)
        total  == (dice[1] + dice[2] + dice[3] + dice[4] + dice[5]) % 65536
        ScoringResult(s, v) == [category |-> category, score |-> s, valid |-> v]
        any_at_least(n) == \E i \in 1 .. 6 : counts[i] >= n
        contains_count(n) == \E i \in 1 .. 6 : counts[i] = n
        seq_1234 == counts[1] >= 1 /\ counts[2] >= 1 /\ counts[3] >= 1 /\ counts[4] >= 1
        seq_2345 == counts[2] >= 1 /\ counts[3] >= 1 /\ counts[4] >= 1 /\ counts[5] >= 1
        seq_3456 == counts[3] >= 1 /\ counts[4] >= 1 /\ counts[5] >= 1 /\ counts[6] >= 1
        has_large ==
            \/ counts[1] = 1 /\ counts[2] = 1 /\ counts[3] = 1 /\ counts[4] = 1 /\ counts[5] = 1
            \/ counts[2] = 1 /\ counts[3] = 1 /\ counts[4] = 1 /\ counts[5] = 1 /\ counts[6] = 1
    IN  CASE category = Ones   -> ScoringResult(counts[1] % 65536, TRUE)
          [] category = Twos   -> ScoringResult((counts[2] * 2) % 65536, TRUE)
          [] category = Threes -> ScoringResult((counts[3] * 3) % 65536, TRUE)
          [] category = Fours  -> ScoringResult((counts[4] * 4) % 65536, TRUE)
          [] category = Fives  -> ScoringResult((counts[5] * 5) % 65536, TRUE)
          [] category = Sixes  -> ScoringResult((counts[6] * 6) % 65536, TRUE)
          [] category = ThreeOfAKind ->
                IF any_at_least(3) THEN ScoringResult(total, TRUE) ELSE ScoringResult(0, FALSE)
          [] category = FourOfAKind ->
                IF any_at_least(4) THEN ScoringResult(total, TRUE) ELSE ScoringResult(0, FALSE)
          [] category = FullHouse ->
                IF contains_count(3) /\ contains_count(2)
                THEN ScoringResult(25, TRUE) ELSE ScoringResult(0, FALSE)
          [] category = SmallStraight ->
                IF seq_1234 \/ seq_2345 \/ seq_3456
                THEN ScoringResult(30, TRUE) ELSE ScoringResult(0, FALSE)
          [] category = LargeStraight ->
                IF has_large THEN ScoringResult(40, TRUE) ELSE ScoringResult(0, FALSE)
          [] category = Dicee ->
                IF contains_count(5) THEN ScoringResult(50, TRUE) ELSE ScoringResult(0, FALSE)
          [] category = Chance -> ScoringResult(total, TRUE)

-----------------------------------------------------------------------------
(* f64 values, kept exactly in units of 1 / Scale^2 *)

\* 6^5, the denominator of every probability of the engine
Scale == 6 * 6 * 6 * 6 * 6

\* `n as f64` for an integer n
F64(n) == <<n * Scale, 0>>

\* a < b and a > b on f64
Lt(a, b) == a[1] < b[1] \/ (a[1] = b[1] /\ a[2] < b[2])
Gt(a, b) == Lt(b, a)

\* f64::max
f64_max(a, b) == IF Lt(a, b) THEN b ELSE a

\* f64::NEG_INFINITY: below every value the solver forms
NEG_INFINITY == <<0 - 1, 0>>

\* whole units and a remainder in units of 1 / Scale^2, carried into an f64
f64_carry(whole, low) == <<whole + (low \div Scale), low % Scale>>

\* a + b on f64
f64_add(a, b) == f64_carry(a[1] + b[1], a[2] + b[2])

\* probability.get() * value: (p / Scale) * v
f64_mul(p, v) ==
    f64_carry(p * (v[1] \div Scale), p * (v[1] % Scale) + ((p * v[2]) \div Scale))

-----------------------------------------------------------------------------
(* transition/probability.rs *)

\* Probability::ZERO, Probability::ONE as numerators over Scale
ZERO == 0
ONE == Scale

\* Probability::is_zero: self.0 < f64::EPSILON; the least positive probability
\* the engine forms is 1 / Scale, far above EPSILON
is_zero(p) == p < 1

\* const FACTORIALS: [u64; 11], indexed from 0
FACTORIALS == <<1, 1, 2, 6, 24, 120, 720, 5040, 40320, 362880, 3628800>>

factorial(n) == FACTORIALS[n + 1]

\* sum of a [u8; 6] in u8
sum_u8(counts) == (counts[1] + counts[2] + counts[3] + counts[4] + counts[5] + counts[6]) % 256

\* the denominator without the factorial of the sixes
multinomial_coefficient_five_faces(counts) ==
    factorial(sum_u8(counts))
        \div (factorial(counts[1]) * factorial(counts[2]) * factorial(counts[3])
                * factorial(counts[4]) * factorial(counts[5]))

\* multinomial_coefficient: n! / (k1! * ... * k6!)
multinomial_coefficient(counts) ==
    LET numerator == factorial(sum_u8(counts))
        denominator == factorial(counts[1]) * factorial(counts[2]) * factorial(counts[3])
                         * factorial(counts[4]) * factorial(counts[5]) * factorial(counts[6])
    IN  numerator \div denominator

\* const POWERS_OF_SIX_INV: [f64; 6], (1/6)^k as a numerator over Scale
POWERS_OF_SIX_INV == <<Scale, Scale \div 6, Scale \div 36, Scale \div 216, Scale \div 1296, Scale \div 7776>>

\* the table of powers read one place too low
inv_power_of_six_off_by_one(k) == POWERS_OF_SIX_INV[k]

inv_power_of_six(k) == POWERS_OF_SIX_INV[k + 1]

\* roll_outcome_probability without the multinomial coefficient: every outcome as
\* likely as one ordered roll
roll_outcome_probability_one_order(rolled_counts, dice_rolled) ==
    IF dice_rolled = 0
    THEN IF \A i \in 1 .. 6 : rolled_counts[i] = 0 THEN ONE ELSE ZERO
    ELSE inv_power_of_six(dice_rolled)

\* roll_outcome_probability
roll_outcome_probability(rolled_counts, dice_rolled) ==
    IF dice_rolled = 0
    THEN IF \A i \in 1 .. 6 : rolled_counts[i] = 0 THEN ONE ELSE ZERO
    ELSE multinomial_coefficient(rolled_counts) * inv_power_of_six(dice_rolled)

\* Option<Probability>
None == [some |-> FALSE, value |-> 0]
Some(p) == [some |-> TRUE, value |-> p]

\* transition_probability(kept, target, dice_to_roll)
transition_probability(kept, target, dice_to_roll) ==
    IF \E i \in 1 .. 6 : target[i] < kept[i] THEN None
    ELSE LET needed == [i \in 1 .. 6 |-> target[i] - kept[i]]
         IN  IF sum_u8(needed) # dice_to_roll THEN None
             ELSE Some(roll_outcome_probability(needed, dice_to_roll))

-----------------------------------------------------------------------------
(* core/keep.rs *)

\* KeepPattern::KEEP_NONE
KEEP_NONE == <<0, 0, 0, 0, 0, 0>>

\* KeepPattern::keep_all
keep_all(c) == c

\* KeepPattern::total_kept, dice_to_roll
total_kept(keep) == sum_u8(keep)
dice_to_roll(keep) == NumDice - total_kept(keep)

\* KeepPattern::is_valid_for
is_valid_for(keep, c) == \A face \in Faces : keep[face] <= count(c, face)

\* KeepPattern::validate_for: the error of the first face asked for more often than
\* the configuration has it
RECURSIVE validate_from(_, _, _)
validate_from(keep, c, face) ==
    IF face > NumFaces THEN [ok |-> TRUE]
    ELSE IF keep[face] > count(c, face)
         THEN [ok |-> FALSE, error |-> "InvalidKeepPattern", face |-> face,
               requested |-> keep[face], available |-> count(c, face)]
         ELSE validate_from(keep, c, face + 1)

validate_for(keep, c) == validate_from(keep, c, 1)

\* KeepPatternIterator::new
KeepPatternIterator_new(c) == [max_counts |-> c, current |-> KEEP_NONE, done |-> FALSE]

\* KeepPattern::count_valid_for: the product of count + 1 over the faces (usize)
count_valid_for(c) ==
    (c[1] + 1) * (c[2] + 1) * (c[3] + 1) * (c[4] + 1) * (c[5] + 1) * (c[6] + 1)

\* the increment leaving a digit that is at its maximum as it is
RECURSIVE increment_no_reset(_, _, _, _)
increment_no_reset(current, max_counts, i, carry) ==
    IF i > NumFaces THEN <<current, carry>>
    ELSE IF carry /\ current[i] < max_counts[i]
         THEN increment_no_reset([current EXCEPT ![i] = @ + 1], max_counts, i + 1, FALSE)
         ELSE increment_no_reset(current, max_counts, i + 1, carry)

\* the mixed-radix increment of KeepPatternIterator::next: <<current, carry>> after
\* digits i .. 6
RECURSIVE increment(_, _, _, _)
increment(current, max_counts, i, carry) ==
    IF i > NumFaces THEN <<current, carry>>
    ELSE IF carry
         THEN IF current[i] < max_counts[i]
              THEN increment([current EXCEPT ![i] = @ + 1], max_counts, i + 1, FALSE)
              ELSE increment([current EXCEPT ![i] = 0], max_counts, i + 1, carry)
         ELSE increment(current, max_counts, i + 1, carry)

\* KeepPatternIterator::next: the item (none once done) and the iterator after it
KeepPatternIterator_next(it) ==
    IF it.done THEN [some |-> FALSE, item |-> KEEP_NONE, it |-> it]
    ELSE LET inc == increment(it.current, it.max_counts, 1, TRUE)
         IN  [some |-> TRUE, item |-> it.current,
              it |-> [it EXCEPT !.current = inc[1], !.done = inc[2]]]

\* the items an iterator yields until it first returns None
RECURSIVE collect(_)
collect(it) ==
    LET n == KeepPatternIterator_next(it)
    IN  IF n.some THEN <<n.item>> \o collect(n.it) ELSE <<>>

\* KeepPattern::iter_valid_for
iter_valid_for(c) == collect(KeepPatternIterator_new(c))

\* the patterns of each configuration, enumerated once
ValidKeeps == [c \in ConfigSet |-> iter_valid_for(c)]

\* PartialDice::combine_with_roll
combine_with_roll(keep, rolled) == [i \in 1 .. 6 |-> keep[i] + rolled[i]]

-----------------------------------------------------------------------------
(* transition/table.rs *)

Min(a, b) == IF a <= b THEN a ELSE b

\* for_each_keep_pattern: the patterns f is called with
RECURSIVE recurse(_, _, _, _)
recurse(kept, face, remaining, max_per_face) ==
    IF face = 5
    THEN IF remaining <= max_per_face THEN {Append(kept, remaining)} ELSE {}
    ELSE UNION {recurse(Append(kept, c), face + 1, remaining - c, max_per_face) :
                    c \in 0 .. Min(remaining, max_per_face)}

for_each_keep_pattern(kept_total) == recurse(<<>>, 0, kept_total, 5)

\* compute_transition_prob
compute_transition_prob(kept, target, to_roll) ==
    IF \E i \in 1 .. 6 : target[i] < kept[i] THEN None
    ELSE LET needed == [i \in 1 .. 6 |-> target[i] - kept[i]]
         IN  IF sum_u8(needed) # to_roll THEN None
             ELSE Some(roll_outcome_probability(needed, to_roll))

\* PartialKey
PartialKey(keep) == <<keep, dice_to_roll(keep)>>

\* entries.push(TransitionEntry { target, probability }) for the indices kept
push_entries(probs, hits) ==
    [j \in 1 .. Len(hits) |-> [target |-> hits[j], probability |-> probs[hits[j]].value]]

\* the indices whose probability is Some and not zero, in ALL_CONFIGS order
select_entries(probs) ==
    push_entries(probs, SelectSeq([i \in 1 .. COUNT |-> i - 1],
                                  LAMBDA idx : probs[idx].some /\ ~is_zero(probs[idx].value)))

\* the entries TransitionTable::build collects for one key
build_entries(kept, to_roll) ==
    select_entries([idx \in 0 .. COUNT - 1 |->
                        compute_transition_prob(kept, from_index(idx), to_roll)])

\* transitions.insert(key, entries) for the keys whose entries are not empty
insert_entries(entries) ==
    [key \in {k \in DOMAIN entries : Len(entries[k]) > 0} |-> entries[key]]

\* one round of the outer loop of TransitionTable::build: the keys of to_roll
build_round(to_roll) ==
    insert_entries([key \in {<<kept, to_roll>> : kept \in for_each_keep_pattern(5 - to_roll)}
                        |-> build_entries(key[1], key[2])])

\* the six rounds, each computed once
BuildRounds == [to_roll \in 0 .. 5 |-> build_round(to_roll)]

\* build without the keys that roll no die: to_roll from 1
TransitionTable_build_from_one ==
    BuildRounds[1] @@ BuildRounds[2] @@ BuildRounds[3] @@ BuildRounds[4] @@ BuildRounds[5]

\* TransitionTable::build: for to_roll in 0u8..=5
TransitionTable_build ==
    BuildRounds[0] @@ BuildRounds[1] @@ BuildRounds[2] @@ BuildRounds[3]
        @@ BuildRounds[4] @@ BuildRounds[5]

\* pub static TRANSITION_TABLE
TRANSITION_TABLE == TransitionTable_build

\* self.transitions.get(&key).map(Vec::as_slice).unwrap_or(&[])
get_or_empty(transitions, key) ==
    IF key \in DOMAIN transitions THEN transitions[key] ELSE <<>>

\* TransitionTable::get
TransitionTable_get(keep) == get_or_empty(TRANSITION_TABLE, PartialKey(keep))

\* the loop of TransitionTable::expected_value over entries[lo .. hi], values[i] being
\* scorer[config] of entry i: the sum of probability * value (exact here, so the
\* entries are added pairwise rather than left to right)
RECURSIVE total(_, _, _, _)
total_halves(entries, values, lo, mid, hi) ==
    f64_add(total(entries, values, lo, mid), total(entries, values, mid + 1, hi))

total(entries, values, lo, hi) ==
    IF lo > hi THEN F64(0)
    ELSE IF lo = hi THEN f64_mul(entries[lo].probability, values[lo])
         ELSE total_halves(entries, values, lo, (lo + hi) \div 2, hi)

\* TransitionTable::expected_value over the entries of a key
sum_entries(entries, scorer) ==
    total(entries, [i \in 1 .. Len(entries) |-> scorer[from_index(entries[i].target)]],
          1, Len(entries))

\* TransitionTable::expected_value
TransitionTable_expected_value(keep, scorer) == sum_entries(TransitionTable_get(keep), scorer)

-----------------------------------------------------------------------------
(* The inputs the callers draw from *)

\* TurnState::MAX_ROLLS
MAX_ROLLS == 2

\* multi-category sets, built with CategorySet's constructors
MixedSets ==
    << all,
       with(with(EMPTY, Dicee), Chance),
       with(with(EMPTY, SmallStraight), LargeStraight),
       with(with(with(EMPTY, ThreeOfAKind), FourOfAKind), FullHouse),
       upper_only,
       lower_only,
       with(with(EMPTY, Sixes), Chance) >>

\* the category sets of the requests: the empty set, every single category and
\* the first MaxMixed of MixedSets
AvailableSets ==
    {EMPTY} \cup {mask(c) : c \in Categories}
            \cup {MixedSets[i] : i \in 1 .. Min(MaxMixed, Len(MixedSets))}

\* every keep pattern of every configuration
KeepSet == UNION {for_each_keep_pattern(t) : t \in 0 .. NumDice}

-----------------------------------------------------------------------------
(* core/solver.rs *)

\* CacheKey::new
CacheKey_new(c, rolls, avail) == <<to_index(c), rolls, avail>>

\* TurnSolver::new: HashMap::new()
EmptyCache == <<>>

\* .max() over the scores of cats[i ..], best being the maximum so far
RECURSIVE max_from(_, _, _, _)
max_from(c, cats, i, best) ==
    IF i > Len(cats) THEN best
    ELSE max_from(c, cats, i + 1, Max(best, score(c, cats[i]).score))

\* the score of the first available category for the maximum
max_score_first(c, avail) == IF is_empty(avail) THEN 0 ELSE score(c, iter(avail)[1]).score

\* available.iter().map(|cat| score(config, cat).score).max().unwrap_or(0)
max_score(c, avail) == max_from(c, iter(avail), 1, 0)

RECURSIVE expected_value(_, _, _, _)
RECURSIVE best_keep(_, _, _, _)
RECURSIVE best_keep_loop(_, _, _, _, _, _)
RECURSIVE lookup_expected_value(_, _, _, _)
RECURSIVE reroll_ev(_, _, _, _)
RECURSIVE keep_ev(_, _, _, _)
RECURSIVE Value0
RECURSIVE RerollEv1
RECURSIVE Value1
RECURSIVE RerollEv2

\* self.expected_value(..) as the solver's own calls reach it: read from its table
\* where it is tabulated (no rolls left: the cache is not read; one roll left: for a
\* solver whose cache is empty)
lookup_expected_value(solver_cache, c, rolls, avail) ==
    IF rolls = 0 /\ avail \in AvailableSets THEN Value0[avail][c]
    ELSE IF rolls = 1 /\ avail \in AvailableSets /\ DOMAIN solver_cache = {}
         THEN Value1[avail][c]
         ELSE expected_value(solver_cache, c, rolls, avail)

\* the closure call of best_keep: TRANSITION_TABLE.expected_value(&partial,
\* |next_config| self.expected_value(next_config, rolls - 1, available))
reroll_ev(solver_cache, keep, rolls, avail) ==
    TransitionTable_expected_value(keep,
        [next_config \in ConfigSet |->
            lookup_expected_value(solver_cache, next_config, rolls - 1, avail)])

\* reroll_ev, read from its table where it is tabulated (one roll left: the closure
\* never reads the cache; two rolls left: for a solver whose cache is empty)
keep_ev(solver_cache, keep, rolls, avail) ==
    IF rolls = 1 /\ avail \in AvailableSets THEN RerollEv1[avail][keep]
    ELSE IF rolls = 2 /\ avail \in AvailableSets /\ DOMAIN solver_cache = {}
         THEN RerollEv2[avail][keep]
         ELSE reroll_ev(solver_cache, keep, rolls, avail)

\* the comparison of best_keep turned round: ev < best_ev
better_less(ev, keep, best) == IF Lt(ev, best[1]) THEN <<ev, keep>> ELSE best

\* if ev > best_ev { best_ev = ev; best_keep = keep; }
better(ev, keep, best) == IF Gt(ev, best[1]) THEN <<ev, keep>> ELSE best

\* the later stretch replacing the earlier best already with an equal value
later_keeps_ge(earlier, later) ==
    IF Lt(later[1], earlier[1]) THEN earlier ELSE later

\* the loop over a later stretch of the keeps continuing the loop over an earlier
\* one: its best replaces the earlier best only with a greater value
later_keeps(earlier, later) == better(later[1], later[2], earlier)

\* the loop of best_keep over keeps[lo .. hi], entered with <<best_ev, best_keep>> =
\* <<NEG_INFINITY, KEEP_NONE>>; the stretch is searched in two halves, the later
\* half continuing the earlier
best_keep_loop(solver_cache, keeps, rolls, avail, lo, hi) ==
    IF lo > hi THEN <<NEG_INFINITY, KEEP_NONE>>
    ELSE IF lo = hi
         THEN better(keep_ev(solver_cache, keeps[lo], rolls, avail), keeps[lo],
                     <<NEG_INFINITY, KEEP_NONE>>)
         ELSE later_keeps(
                  best_keep_loop(solver_cache, keeps, rolls, avail, lo, (lo + hi) \div 2),
                  best_keep_loop(solver_cache, keeps, rolls, avail, (lo + hi) \div 2 + 1, hi))

\* best_keep over the keeps that roll at least one die
best_keep_rolling(solver_cache, c, rolls, avail) ==
    IF rolls = 0 THEN <<expected_value(solver_cache, c, 0, avail), keep_all(c)>>
    ELSE best_keep_loop(solver_cache, ValidKeeps[c], rolls, avail, 1, Len(ValidKeeps[c]) - 1)

\* TurnSolver::best_keep: <<expected value, keep pattern>>
best_keep(solver_cache, c, rolls, avail) ==
    IF rolls = 0 THEN <<expected_value(solver_cache, c, 0, avail), keep_all(c)>>
    ELSE best_keep_loop(solver_cache, ValidKeeps[c], rolls, avail, 1, Len(ValidKeeps[c]))

\* if let Some(&cached) = self.cache.get(&key) { return cached; }
cached_or(solver_cache, key, computed) ==
    IF key \in DOMAIN solver_cache THEN solver_cache[key] ELSE computed

\* expected_value taking a reroll as forced while rolls remain: the best keep that
\* rolls at least one die, without the immediate score
expected_value_must_reroll(solver_cache, c, rolls, avail) ==
    IF is_empty(avail) THEN F64(0)
    ELSE IF rolls = 0 THEN F64(max_score(c, avail))
    ELSE cached_or(solver_cache, CacheKey_new(c, rolls, avail),
                   best_keep_loop(solver_cache, ValidKeeps[c], rolls, avail,
                                  1, Len(ValidKeeps[c]) - 1)[1])

\* TurnSolver::expected_value
expected_value(solver_cache, c, rolls, avail) ==
    IF is_empty(avail) THEN F64(0)
    ELSE IF rolls = 0 THEN F64(max_score(c, avail))
    ELSE cached_or(solver_cache, CacheKey_new(c, rolls, avail),
                   f64_max(F64(max_score(c, avail)),
                           best_keep(solver_cache, c, rolls, avail)[1]))

\* the tables: expected_value and reroll_ev of a solver with an empty cache
Value0 == [avail \in AvailableSets |-> [c \in ConfigSet |-> expected_value(EmptyCache, c, 0, avail)]]
RerollEv1 == [avail \in AvailableSets |-> [keep \in KeepSet |-> reroll_ev(EmptyCache, keep, 1, avail)]]
Value1 == [avail \in AvailableSets |-> [c \in ConfigSet |-> expected_value(EmptyCache, c, 1, avail)]]
RerollEv2 == [avail \in AvailableSets |-> [keep \in KeepSet |-> reroll_ev(EmptyCache, keep, 2, avail)]]

RECURSIVE best_keep_for_category(_, _, _)
RECURSIVE category_loop(_, _, _, _, _)
RECURSIVE lookup_best_keep_for_category(_, _, _)
RECURSIVE category_reroll_ev(_, _, _)
RECURSIVE category_keep_ev(_, _, _)
RECURSIVE CategoryEv1
RECURSIVE CategoryBest1
RECURSIVE CategoryEv2

\* self.best_keep_for_category(..), read from its table where it is tabulated
lookup_best_keep_for_category(c, rolls, category) ==
    IF rolls = 1 THEN CategoryBest1[category][c]
    ELSE best_keep_for_category(c, rolls, category)

\* the closure call of best_keep_for_category
category_reroll_ev(keep, rolls, category) ==
    TransitionTable_expected_value(keep,
        [next_config \in ConfigSet |->
            IF rolls = 1 THEN F64(score(next_config, category).score)
            ELSE lookup_best_keep_for_category(next_config, rolls - 1, category)[1]])

\* category_reroll_ev, read from its table where it is tabulated
category_keep_ev(keep, rolls, category) ==
    IF rolls = 1 THEN CategoryEv1[category][keep]
    ELSE IF rolls = 2 THEN CategoryEv2[category][keep]
    ELSE category_reroll_ev(keep, rolls, category)

\* the loop of best_keep_for_category over keeps[lo .. hi], searched like the loop
\* of best_keep
category_loop(keeps, rolls, category, lo, hi) ==
    IF lo > hi THEN <<NEG_INFINITY, KEEP_NONE>>
    ELSE IF lo = hi
         THEN better(category_keep_ev(keeps[lo], rolls, category), keeps[lo],
                     <<NEG_INFINITY, KEEP_NONE>>)
         ELSE later_keeps(category_loop(keeps, rolls, category, lo, (lo + hi) \div 2),
                          category_loop(keeps, rolls, category, (lo + hi) \div 2 + 1, hi))

\* TurnSolver::best_keep_for_category: <<expected value, keep pattern>>
best_keep_for_category(c, rolls, category) ==
    IF rolls = 0 THEN <<F64(score(c, category).score), keep_all(c)>>
    ELSE category_loop(ValidKeeps[c], rolls, category, 1, Len(ValidKeeps[c]))

\* the tables of the per-category search
CategoryEv1 == [category \in Categories |-> [keep \in KeepSet |-> category_reroll_ev(keep, 1, category)]]
CategoryBest1 == [category \in Categories |-> [c \in ConfigSet |-> best_keep_for_category(c, 1, category)]]
CategoryEv2 == [category \in Categories |-> [keep \in KeepSet |-> category_reroll_ev(keep, 2, category)]]

\* category_ev looking one roll ahead whatever rolls remain
category_ev_one_roll(c, rolls, category) ==
    IF rolls = 0 THEN F64(score(c, category).score)
    ELSE best_keep_for_category(c, 1, category)[1]

\* TurnSolver::category_ev
category_ev(c, rolls, category) ==
    IF rolls = 0 THEN F64(score(c, category).score)
    ELSE best_keep_for_category(c, rolls, category)[1]

\* core/turn.rs: Action::score, Action::reroll
NoCategory == 0 - 1
NoKeep == <<>>
Action_score(category) == [kind |-> "Score", category |-> category, keep |-> NoKeep]
Action_reroll(keep) == [kind |-> "Reroll", category |-> NoCategory, keep |-> keep]

\* max_by_key settling on the first of the maxima
max_by_key_first(category_values) ==
    category_values[CHOOSE i \in 1 .. Len(category_values) :
        /\ \A j \in 1 .. Len(category_values) :
               category_values[j].immediate_score <= category_values[i].immediate_score
        /\ \A j \in 1 .. (i - 1) :
               category_values[j].immediate_score < category_values[i].immediate_score]

\* the index max_by_key settles on over category_values[i ..]: the last of the maxima
RECURSIVE max_index(_, _, _)
max_index(category_values, i, best) ==
    IF i > Len(category_values) THEN best
    ELSE IF category_values[i].immediate_score >= category_values[best].immediate_score
         THEN max_index(category_values, i + 1, i)
         ELSE max_index(category_values, i + 1, best)

\* category_values.iter().max_by_key(|cv| cv.immediate_score)
max_by_key(category_values) == category_values[max_index(category_values, 2, 1)]

\* the CategoryValue analyze pushes for a category, result being score(config, category)
CategoryValue(c, rolls, category, result) ==
    [category |-> category,
     immediate_score |-> result.score,
     is_valid |-> result.valid,
     expected_value |-> IF rolls > 0 THEN category_ev(c, rolls, category)
                        ELSE F64(result.score)]

\* the category_values of analyze, in the order of available.iter()
category_values_of(c, rolls, cats) ==
    [i \in 1 .. Len(cats) |-> CategoryValue(c, rolls, cats[i], score(c, cats[i]))]

\* the recommendation reporting the best immediate score as its value even for a
\* reroll
recommend_immediate_value(reroll, continuation, best) ==
    [recommendation |-> IF reroll THEN Action_reroll(continuation[2])
                        ELSE Action_score(best.category),
     expected_value |-> F64(best.immediate_score)]

\* the recommendation of analyze and its expected value, reroll being
\* rolls_remaining > 0 && continue_value > best_immediate_value
recommend(reroll, continuation, best) ==
    [recommendation |-> IF reroll THEN Action_reroll(continuation[2])
                        ELSE Action_score(best.category),
     expected_value |-> IF reroll THEN continuation[1] ELSE F64(best.immediate_score)]

\* the TurnAnalysis analyze returns, from its category_values, its best immediate
\* CategoryValue, its <<continue_value, optimal_keep>> and its recommendation
TurnAnalysis(c, rolls, avail, category_values, best, continuation, recommended) ==
    [config |-> c, rolls_remaining |-> rolls, available |-> avail,
     category_values |-> category_values,
     best_immediate |-> [some |-> TRUE, category |-> best.category,
                         score |-> best.immediate_score],
     continue_value |-> continuation[1],
     optimal_keep |-> continuation[2],
     recommendation |-> recommended.recommendation,
     expected_value |-> recommended.expected_value]

\* the recommendation with >= for >: a reroll on equality
analyze_recommendation_ge(c, rolls, avail, category_values, best, continuation) ==
    TurnAnalysis(c, rolls, avail, category_values, best, continuation,
                 recommend(rolls > 0 /\ ~Lt(continuation[1], F64(best.immediate_score)),
                           continuation, best))

\* analyze once continuation = <<continue_value, optimal_keep>> is known
analyze_recommendation(c, rolls, avail, category_values, best, continuation) ==
    TurnAnalysis(c, rolls, avail, category_values, best, continuation,
                 recommend(rolls > 0 /\ Gt(continuation[1], F64(best.immediate_score)),
                           continuation, best))

\* analyze taking the value of best_keep but all the dice as its keep
analyze_continuation_keep_all(solver_cache, c, rolls, avail, category_values, best) ==
    analyze_recommendation(c, rolls, avail, category_values, best,
        IF rolls > 0 THEN <<best_keep(solver_cache, c, rolls, avail)[1], keep_all(c)>>
        ELSE <<F64(best.immediate_score), keep_all(c)>>)

\* analyze once best = the best immediate CategoryValue is known
analyze_continuation(solver_cache, c, rolls, avail, category_values, best) ==
    analyze_recommendation(c, rolls, avail, category_values, best,
        IF rolls > 0 THEN best_keep(solver_cache, c, rolls, avail)
        ELSE <<F64(best.immediate_score), keep_all(c)>>)

\* analyze once category_values is known
analyze_best(solver_cache, c, rolls, avail, category_values) ==
    analyze_continuation(solver_cache, c, rolls, avail, category_values,
                         max_by_key(category_values))

\* analyze treating the empty set as the catch-all category alone
analyze_chance_fallback(solver_cache, c, rolls, avail) ==
    IF is_empty(avail)
    THEN analyze_best(solver_cache, c, rolls, mask(Chance),
                      category_values_of(c, rolls, iter(mask(Chance))))
    ELSE analyze_best(solver_cache, c, rolls, avail, category_values_of(c, rolls, iter(avail)))

\* TurnSolver::analyze
analyze(solver_cache, c, rolls, avail) ==
    IF is_empty(avail)
    THEN [config |-> c, rolls_remaining |-> rolls, available |-> avail,
          category_values |-> <<>>,
          best_immediate |-> [some |-> FALSE, category |-> NoCategory, score |-> 0],
          continue_value |-> F64(0),
          optimal_keep |-> KEEP_NONE,
          recommendation |-> Action_score(Chance),
          expected_value |-> F64(0)]
    ELSE analyze_best(solver_cache, c, rolls, avail, category_values_of(c, rolls, iter(avail)))

-----------------------------------------------------------------------------
(* The solver and its callers *)

\* LazyLock::new(TransitionTable::build): not yet forced, no value
NoTable == <<>>
LazyLock_new == [state |-> "Incomplete", value |-> NoTable]

\* no thread besides the caller, no iterator in use
NoThreads == <<>>
NoIterator == [max_counts |-> <<>>, current |-> <<>>, done |-> TRUE]

NoPartial == <<>>
NoResponse == [op |-> "none"]

\* for_each_roll_outcome of transition/probability.rs: the ways k dice can fall
RECURSIVE roll_recurse(_, _, _)
roll_recurse(counts, face, remaining) ==
    IF face = 5 THEN {Append(counts, remaining)}
    ELSE UNION {roll_recurse(Append(counts, c), face + 1, remaining - c) : c \in 0 .. remaining}

for_each_roll_outcome(k) == roll_recurse(<<>>, 0, k)

Init ==
    /\ config \in ConfigSet
    /\ rolls_remaining \in 0 .. MAX_ROLLS
    /\ available \in AvailableSets
    /\ cache = EmptyCache
    /\ partial = NoPartial
    /\ response = NoResponse
    /\ served = FALSE
    /\ once = LazyLock_new
    /\ threads = NoThreads
    /\ iterator = NoIterator

\* solver.expected_value(&config, rolls, &available): &self, the cache is not written
ExpectedValue ==
    /\ response' = [op |-> "expected_value", reused |-> served,
                    ev |-> expected_value(cache, config, rolls_remaining, available)]
    /\ served' = TRUE
    /\ UNCHANGED <<config, rolls_remaining, available, cache, partial, once, threads, iterator>>

\* analyze memoizing the best immediate score under the key of the state
Analyze_storing_immediate ==
    /\ response' = [op |-> "analyze", reused |-> served,
                    analysis |-> analyze(cache, config, rolls_remaining, available)]
    /\ cache' = [key \in DOMAIN cache \cup {CacheKey_new(config, rolls_remaining, available)} |->
                    IF key = CacheKey_new(config, rolls_remaining, available)
                    THEN F64(max_score(config, available))
                    ELSE cache[key]]
    /\ served' = TRUE
    /\ UNCHANGED <<config, rolls_remaining, available, partial, once, threads, iterator>>

\* solver.analyze(&state, &available)
Analyze ==
    /\ response' = [op |-> "analyze", reused |-> served,
                    analysis |-> analyze(cache, config, rolls_remaining, available)]
    /\ served' = TRUE
    /\ UNCHANGED <<config, rolls_remaining, available, cache, partial, once, threads, iterator>>

\* solver.clear_cache()
ClearCache ==
    /\ cache' = EmptyCache
    /\ response' = [op |-> "clear_cache"]
    /\ UNCHANGED <<config, rolls_remaining, available, partial, served, once, threads, iterator>>

\* the caller follows a Reroll recommendation: the kept dice and a roll of the others
\* give the next state of the turn, analysed by the same solver
Reroll ==
    /\ response.op = "analyze"
    /\ response.analysis.recommendation.kind = "Reroll"
    /\ rolls_remaining > 0
    /\ \E rolled \in for_each_roll_outcome(dice_to_roll(response.analysis.recommendation.keep)) :
           config' = combine_with_roll(response.analysis.recommendation.keep, rolled)
    /\ rolls_remaining' = rolls_remaining - 1
    /\ response' = NoResponse
    /\ UNCHANGED <<available, cache, partial, served, once, threads, iterator>>

Next == ExpectedValue \/ Analyze \/ ClearCache \/ Reroll

Spec == Init /\ [][Next]_vars

-----------------------------------------------------------------------------
(* The transition table and its callers *)

\* PartialDice::new
PartialDice_new(c, keep) == validate_for(keep, c)

\* the loop of prop_transition_sum_to_one over ALL_CONFIGS[lo .. hi]: total += prob
\* for the targets transition_probability gives Some for
RECURSIVE sum_transitions(_, _, _, _)
sum_halves(kept, k, lo, mid, hi) ==
    sum_transitions(kept, k, lo, mid) + sum_transitions(kept, k, mid + 1, hi)

some_or_zero(prob) == IF prob.some THEN prob.value ELSE ZERO

sum_transitions(kept, k, lo, hi) ==
    IF lo > hi THEN ZERO
    ELSE IF lo = hi THEN some_or_zero(transition_probability(kept, from_index(lo), k))
         ELSE sum_halves(kept, k, lo, (lo + hi) \div 2, hi)

InitTransition ==
    /\ config \in ConfigSet
    /\ rolls_remaining = 0
    /\ available = EMPTY
    /\ cache = EmptyCache
    /\ partial = NoPartial
    /\ response = NoResponse
    /\ served = FALSE
    /\ once = LazyLock_new
    /\ threads = NoThreads
    /\ iterator = NoIterator

\* the Ok and the Err of PartialDice::new(config, keep)
new_ok(keep) == partial' = keep /\ response' = [op |-> "new", result |-> [ok |-> TRUE]]
new_err(result) == partial' = NoPartial /\ response' = [op |-> "new", result |-> result]

\* PartialDice::new(config, keep) for any keep pattern of at most five dice, once
\* for each configuration drawn
NewPartial ==
    /\ response = NoResponse
    /\ \E keep \in KeepSet :
           IF PartialDice_new(config, keep).ok THEN new_ok(keep)
           ELSE new_err(PartialDice_new(config, keep))
    /\ UNCHANGED <<config, rolls_remaining, available, cache, served, once, threads, iterator>>

\* the sum of transition_probability over ALL_CONFIGS for the partial just built
SumTransitions ==
    /\ partial # NoPartial
    /\ response.op = "new"
    /\ response' = [op |-> "transition_sum",
                    total |-> sum_transitions(partial, dice_to_roll(partial), 0, COUNT - 1)]
    /\ UNCHANGED <<config, rolls_remaining, available, cache, partial, served, once, threads, iterator>>

\* TRANSITION_TABLE.get(&partial) for the partial just built
TableGet ==
    /\ partial # NoPartial
    /\ response.op = "new"
    /\ response' = [op |-> "get", entries |-> TransitionTable_get(partial)]
    /\ UNCHANGED <<config, rolls_remaining, available, cache, partial, served, once, threads, iterator>>

NextTransition == NewPartial \/ SumTransitions \/ TableGet

SpecTransition == InitTransition /\ [][NextTransition]_vars

-----------------------------------------------------------------------------
(* The roll probabilities and their callers *)

\* the loop body of test_roll_probability_sum_to_one over a set of outcomes:
\* total = total + roll_outcome_probability(counts, dice_to_roll), the outcomes of
\* one probability added together (the sum is exact, so its order does not matter)
RECURSIVE add_outcomes(_, _, _)
add_outcomes(probabilities, outcomes, k) ==
    IF probabilities = {} THEN ZERO
    ELSE LET p == CHOOSE q \in probabilities : TRUE
         IN  p * Cardinality({counts \in outcomes : roll_outcome_probability(counts, k) = p})
                 + add_outcomes(probabilities \ {p}, outcomes, k)

\* total after for_each_roll_outcome(dice_to_roll, |counts| total = total + ...)
sum_roll_outcomes(k) ==
    add_outcomes({roll_outcome_probability(counts, k) : counts \in for_each_roll_outcome(k)},
                 for_each_roll_outcome(k), k)

InitRoll ==
    /\ config = DiceConfig_ZERO
    /\ rolls_remaining = 0
    /\ available = EMPTY
    /\ cache = EmptyCache
    /\ partial = NoPartial
    /\ response = NoResponse
    /\ served = FALSE
    /\ once = LazyLock_new
    /\ threads = NoThreads
    /\ iterator = NoIterator

\* roll_outcome_probability(&counts, k) for the outcomes of rolling k dice
RollOutcomeProbability ==
    /\ \E k \in 0 .. NumDice : \E counts \in for_each_roll_outcome(k) :
           response' = [op |-> "roll_outcome_probability",
                        rolled_counts |-> counts, dice_rolled |-> k,
                        probability |-> roll_outcome_probability(counts, k)]
    /\ UNCHANGED <<config, rolls_remaining, available, cache, partial, served, once, threads, iterator>>

\* test_roll_probability_sum_to_one for one dice_to_roll
SumRollOutcomes ==
    /\ \E k \in 0 .. NumDice :
           response' = [op |-> "roll_sum", dice_rolled |-> k, total |-> sum_roll_outcomes(k)]
    /\ UNCHANGED <<config, rolls_remaining, available, cache, partial, served, once, threads, iterator>>

NextRoll == RollOutcomeProbability \/ SumRollOutcomes

SpecRoll == InitRoll /\ [][NextRoll]_vars

-----------------------------------------------------------------------------
(* TRANSITION_TABLE as a LazyLock forced by several threads: the Once of the   *)
(* lock is Incomplete, Running or Complete; the thread that finds it Incomplete *)
(* runs TransitionTable::build, round by round, on a map of its own            *)

\* a thread that has not touched TRANSITION_TABLE: where it is, the map it is
\* building, the round it is in, the table its deref returned, the builds it ran
Thread_new ==
    [pc |-> "start", transitions |-> NoTable, to_roll |-> 0, table |-> NoTable, built |-> 0]

InitLazy ==
    /\ config \in {from_index(0), from_index(COUNT - 1)}
    /\ rolls_remaining = 0
    /\ available = EMPTY
    /\ cache = EmptyCache
    /\ partial = NoPartial
    /\ response = NoResponse
    /\ served = FALSE
    /\ once = LazyLock_new
    /\ threads = [t \in 1 .. MaxThreads |-> Thread_new]
    /\ iterator = NoIterator

\* &*TRANSITION_TABLE with the Once Complete: the reference to the value
DerefComplete(t) ==
    /\ threads[t].pc = "start"
    /\ once.state = "Complete"
    /\ threads' = [threads EXCEPT ![t].pc = "ready", ![t].table = once.value]
    /\ UNCHANGED <<config, rolls_remaining, available, cache, partial, response, served,
                   once, iterator>>

\* &*TRANSITION_TABLE with the Once Incomplete: this thread takes it to Running and
\* calls TransitionTable::build
DerefIncomplete(t) ==
    /\ threads[t].pc = "start"
    /\ once.state = "Incomplete"
    /\ once' = [once EXCEPT !.state = "Running"]
    /\ threads' = [threads EXCEPT ![t].pc = "build", ![t].transitions = NoTable,
                                  ![t].to_roll = 0]
    /\ UNCHANGED <<config, rolls_remaining, available, cache, partial, response, served,
                   iterator>>

\* a second thread running the initializer while the first is still in it
DerefRunning_builds(t) ==
    /\ threads[t].pc = "start"
    /\ once.state = "Running"
    /\ threads' = [threads EXCEPT ![t].pc = "build", ![t].transitions = NoTable,
                                  ![t].to_roll = 0]
    /\ UNCHANGED <<config, rolls_remaining, available, cache, partial, response, served,
                   once, iterator>>

\* &*TRANSITION_TABLE with the Once Running: the thread waits for the builder
DerefRunning(t) ==
    /\ threads[t].pc = "start"
    /\ once.state = "Running"
    /\ threads' = [threads EXCEPT ![t].pc = "wait"]
    /\ UNCHANGED <<config, rolls_remaining, available, cache, partial, response, served,
                   once, iterator>>

\* a waiting thread woken once the Once is Complete
Wake(t) ==
    /\ threads[t].pc = "wait"
    /\ once.state = "Complete"
    /\ threads' = [threads EXCEPT ![t].pc = "ready", ![t].table = once.value]
    /\ UNCHANGED <<config, rolls_remaining, available, cache, partial, response, served,
                   once, iterator>>

\* one round of the outer loop of TransitionTable::build in the building thread
BuildRound(t) ==
    /\ threads[t].pc = "build"
    /\ threads[t].to_roll <= 5
    /\ threads' = [threads EXCEPT ![t].transitions = @ @@ BuildRounds[threads[t].to_roll],
                                  ![t].to_roll = @ + 1]
    /\ UNCHANGED <<config, rolls_remaining, available, cache, partial, response, served,
                   once, iterator>>

\* build returns Self { transitions }: the lock stores it and the Once is Complete
BuildReturn(t) ==
    /\ threads[t].pc = "build"
    /\ threads[t].to_roll = 6
    /\ once' = [state |-> "Complete", value |-> threads[t].transitions]
    /\ threads' = [threads EXCEPT ![t].pc = "ready", ![t].table = threads[t].transitions,
                                  ![t].transitions = NoTable, ![t].built = @ + 1]
    /\ UNCHANGED <<config, rolls_remaining, available, cache, partial, response, served,
                   iterator>>

\* table.get(&partial) through the reference a thread holds; its next access
\* dereferences TRANSITION_TABLE again
ThreadGet(t) ==
    /\ threads[t].pc = "ready"
    /\ \E keep \in {KEEP_NONE, keep_all(config)} :
           response' = [op |-> "thread_get", thread |-> t, keep |-> keep,
                        entries |-> get_or_empty(threads[t].table, PartialKey(keep))]
    /\ threads' = [threads EXCEPT ![t].pc = "start", ![t].table = NoTable]
    /\ UNCHANGED <<config, rolls_remaining, available, cache, partial, served,
                   once, iterator>>

NextLazy ==
    \E t \in 1 .. MaxThreads :
        \/ DerefComplete(t)
        \/ DerefIncomplete(t)
        \/ DerefRunning(t)
        \/ Wake(t)
        \/ BuildRound(t)
        \/ BuildReturn(t)
        \/ ThreadGet(t)

SpecLazy == InitLazy /\ [][NextLazy]_vars

-----------------------------------------------------------------------------
(* The operations of DiceConfig and the solver's scoring function, called on *)
(* a configuration                                                           *)

\* no configuration has been made yet
InitConfig ==
    /\ config = DiceConfig_ZERO
    /\ rolls_remaining = 0
    /\ available = EMPTY
    /\ cache = EmptyCache
    /\ partial = NoPartial
    /\ response = NoResponse
    /\ served = FALSE
    /\ once = LazyLock_new
    /\ threads = NoThreads
    /\ iterator = NoIterator

\* DiceConfig::from_dice(&dice)
FromDice ==
    /\ config = DiceConfig_ZERO
    /\ \E dice \in DiceSet :
           /\ config' = from_dice(dice)
           /\ response' = [op |-> "from_dice", dice |-> dice]
    /\ UNCHANGED <<rolls_remaining, available, cache, partial, served,
                   once, threads, iterator>>

\* config.to_index()
ToIndex ==
    /\ config # DiceConfig_ZERO
    /\ response' = [op |-> "to_index", index |-> to_index(config)]
    /\ UNCHANGED <<config, rolls_remaining, available, cache, partial, served,
                   once, threads, iterator>>

\* DiceConfig::from_index(index)
FromIndex ==
    /\ config = DiceConfig_ZERO
    /\ \E index \in 0 .. (COUNT - 1) :
           /\ config' = from_index(index)
           /\ response' = [op |-> "from_index", index |-> index]
    /\ UNCHANGED <<rolls_remaining, available, cache, partial, served,
                   once, threads, iterator>>

\* config.multiplicity() and CONFIG_MULTIPLICITIES[config.to_index()]
Multiplicity ==
    /\ config # DiceConfig_ZERO
    /\ response' = [op |-> "multiplicity", multiplicity |-> multiplicity(config),
                    precomputed |-> CONFIG_MULTIPLICITIES[to_index(config) + 1]]
    /\ UNCHANGED <<config, rolls_remaining, available, cache, partial, served,
                   once, threads, iterator>>

\* rules::score(&config, category)
Score ==
    \E category \in Categories :
        /\ config # DiceConfig_ZERO
        /\ response' = [op |-> "score", category |-> category,
                        result |-> score(config, category)]
        /\ UNCHANGED <<config, rolls_remaining, available, cache, partial, served,
                       once, threads, iterator>>

\* config.mode_face()
ModeFace ==
    /\ config # DiceConfig_ZERO
    /\ response' = [op |-> "mode_face", face |-> mode_face(config)]
    /\ UNCHANGED <<config, rolls_remaining, available, cache, partial, served,
                   once, threads, iterator>>

NextConfig ==
    \/ FromDice
    \/ ToIndex
    \/ FromIndex
    \/ Multiplicity
    \/ Score
    \/ ModeFace

SpecConfig == InitConfig /\ [][NextConfig]_vars

-----------------------------------------------------------------------------
(* KeepPattern::iter_valid_for(&config) driven by calls of next *)

\* the iterator iter_valid_for returns for a configuration
InitKeep ==
    /\ config \in ConfigSet
    /\ rolls_remaining = 0
    /\ available = EMPTY
    /\ cache = EmptyCache
    /\ partial = NoPartial
    /\ response = [op |-> "iter_valid_for", some |-> FALSE, item |-> KEEP_NONE,
                   yielded |-> <<>>, nones |-> 0]
    /\ served = FALSE
    /\ once = LazyLock_new
    /\ threads = NoThreads
    /\ iterator = KeepPatternIterator_new(config)

\* iterator.next(): what it returned, with the items yielded so far and the number
\* of times None was returned
IterNext ==
    /\ response.nones < MaxNone
    /\ iterator' = KeepPatternIterator_next(iterator).it
    /\ response' =
           [op |-> "next",
            some |-> KeepPatternIterator_next(iterator).some,
            item |-> KeepPatternIterator_next(iterator).item,
            yielded |-> IF KeepPatternIterator_next(iterator).some
                        THEN Append(response.yielded, KeepPatternIterator_next(iterator).item)
                        ELSE response.yielded,
            nones |-> IF KeepPatternIterator_next(iterator).some THEN response.nones
                      ELSE response.nones + 1]
    /\ UNCHANGED <<config, rolls_remaining, available, cache, partial, served,
                   once, threads>>

NextKeep == IterNext

SpecKeep == InitKeep /\ [][NextKeep]_vars

-----------------------------------------------------------------------------
(* The two scoring functions for ordered dice *)

\* no dice have been scored yet
InitScoring ==
    /\ config = DiceConfig_ZERO
    /\ rolls_remaining = 0
    /\ available = EMPTY
    /\ cache = EmptyCache
    /\ partial = NoPartial
    /\ response = NoResponse
    /\ served = FALSE
    /\ once = LazyLock_new
    /\ threads = NoThreads
    /\ iterator = NoIterator

\* scoring::score(&dice, category): the configuration it makes and its result
ScoringScore ==
    /\ response = NoResponse
    /\ \E dice \in DiceSet : \E category \in Categories :
           /\ config' = from_dice(dice)
           /\ response' = [op |-> "scoring_score", dice |-> dice, category |-> category,
                           result |-> scoring_score(dice, category)]
    /\ UNCHANGED <<rolls_remaining, available, cache, partial, served,
                   once, threads, iterator>>

\* score(&dice, category) of scoring.rs on the dice last scored
ScoringRsScore ==
    /\ response.op = "scoring_score"
    /\ response' = [op |-> "scoring_rs_score", dice |-> response.dice,
                    category |-> response.category, config_based |-> response.result,
                    result |-> scoring_rs_score(response.dice, response.category)]
    /\ UNCHANGED <<config, rolls_remaining, available, cache, partial, served,
                   once, threads, iterator>>

NextScoring ==
    \/ ScoringScore
    \/ ScoringRsScore

SpecScoring == InitScoring /\ [][NextScoring]_vars

-----------------------------------------------------------------------------
(* The validating constructors: validate_dice and DiceConfig::try_from_dice,     *)
(* DiceConfig::from_counts, KeepPattern::from_counts and PartialDice::new, called *)
(* with arbitrary u8 values                                                      *)

\* the u8 values the callers pass: 0, faces, 6 and 7 around the upper limit, and
\* values whose sums pass 255
U8Samples == {0, 1, 2, 5, 6, 7, 255}

\* validate_dice counting positions from 1
validate_dice_one_based(dice) ==
    IF \A i \in 1 .. NumDice : dice[i] >= 1 /\ dice[i] <= 6 THEN [ok |-> TRUE]
    ELSE LET first == CHOOSE i \in 1 .. NumDice :
                          /\ ~(dice[i] >= 1 /\ dice[i] <= 6)
                          /\ \A j \in 1 .. (i - 1) : dice[j] >= 1 /\ dice[j] <= 6
         IN  [ok |-> FALSE, error |-> "InvalidDieValue", value |-> dice[first],
              position |-> first]

\* validate_dice: the error of the first die outside 1..=6, position from 0
validate_dice(dice) ==
    LET RECURSIVE from(_)
        from(i) ==
            IF i > NumDice THEN [ok |-> TRUE]
            ELSE IF ~(dice[i] >= 1 /\ dice[i] <= 6)
                 THEN [ok |-> FALSE, error |-> "InvalidDieValue", value |-> dice[i],
                       position |-> i - 1]
                 ELSE from(i + 1)
    IN  from(1)

\* DiceConfig::try_from_dice: crate::validate_dice(dice)?; Ok(Self::from_dice(dice))
try_from_dice(dice) ==
    IF validate_dice(dice).ok THEN [ok |-> TRUE, config |-> from_dice(dice)]
    ELSE validate_dice(dice)

\* what iter().sum() of six u8 leaves: the sum, or, when it passes 255, a panic
\* (overflow checks on) or the sum wrapped to 8 bits (overflow checks off)
u8_sum_outcomes(counts) ==
    IF counts[1] + counts[2] + counts[3] + counts[4] + counts[5] + counts[6] > 255
    THEN {[panic |-> TRUE, sum |-> 0], [panic |-> FALSE, sum |-> sum_u8(counts)]}
    ELSE {[panic |-> FALSE, sum |-> sum_u8(counts)]}

\* DiceConfig::from_counts for one outcome of the sum
DiceConfig_from_counts(counts, summed) ==
    IF summed.panic THEN [ok |-> FALSE, error |-> "panic"]
    ELSE IF summed.sum # 5
         THEN [ok |-> FALSE, error |-> "InvalidDieValue", value |-> summed.sum, position |-> 0]
         ELSE [ok |-> TRUE, config |-> counts]

\* KeepPattern::from_counts for one outcome of the sum
KeepPattern_from_counts(kept, summed) ==
    IF summed.panic THEN [ok |-> FALSE, error |-> "panic"]
    ELSE IF summed.sum > 5
         THEN [ok |-> FALSE, error |-> "InvalidKeepPattern", face |-> 0,
               requested |-> summed.sum, available |-> 5]
         ELSE [ok |-> TRUE, keep |-> kept]

\* a configuration is at hand for PartialDice::new
InitValidate ==
    /\ config \in {from_dice(<<1, 2, 3, 3, 5>>), from_dice(<<6, 6, 6, 6, 6>>)}
    /\ rolls_remaining = 0
    /\ available = EMPTY
    /\ cache = EmptyCache
    /\ partial = NoPartial
    /\ response = NoResponse
    /\ served = FALSE
    /\ once = LazyLock_new
    /\ threads = NoThreads
    /\ iterator = NoIterator

\* DiceConfig::try_from_dice(&dice): the configuration is made only on Ok
TryFromDice ==
    /\ response = NoResponse
    /\ \E dice \in [1 .. NumDice -> U8Samples] :
           /\ response' = [op |-> "try_from_dice", dice |-> dice, result |-> try_from_dice(dice)]
           /\ config' = IF try_from_dice(dice).ok THEN try_from_dice(dice).config ELSE config
    /\ UNCHANGED <<rolls_remaining, available, cache, partial, served, once, threads, iterator>>

\* DiceConfig::from_counts(counts): the configuration is made only on Ok
FromCounts ==
    /\ response = NoResponse
    /\ \E counts \in [1 .. NumFaces -> U8Samples] : \E summed \in u8_sum_outcomes(counts) :
           /\ response' = [op |-> "from_counts", counts |-> counts,
                           result |-> DiceConfig_from_counts(counts, summed)]
           /\ config' = IF DiceConfig_from_counts(counts, summed).ok THEN counts ELSE config
    /\ UNCHANGED <<rolls_remaining, available, cache, partial, served, once, threads, iterator>>

\* KeepPattern::from_counts(kept)
KeepFromCounts ==
    /\ response = NoResponse
    /\ \E kept \in [1 .. NumFaces -> U8Samples] : \E summed \in u8_sum_outcomes(kept) :
           response' = [op |-> "keep_from_counts", kept |-> kept,
                        result |-> KeepPattern_from_counts(kept, summed)]
    /\ UNCHANGED <<config, rolls_remaining, available, cache, partial, served,
                   once, threads, iterator>>

NextValidate ==
    \/ TryFromDice
    \/ FromCounts
    \/ KeepFromCounts
    \/ NewPartial

SpecValidate == InitValidate /\ [][NextValidate]_vars

-----------------------------------------------------------------------------
(* The Bellman value V(D, r, C), computed die by die without the solver, its   *)
(* keep iterator or the transition table                                       *)

\* the count vectors of n dice: one more die on those of n - 1 dice
BellmanDice[n \in 0 .. NumDice] ==
    IF n = 0 THEN {<<0, 0, 0, 0, 0, 0>>}
    ELSE {[K EXCEPT ![f] = @ + 1] : K \in BellmanDice[n - 1], f \in Faces}

\* the configurations, and the dice held when at least t are held
BellmanConfigs == BellmanDice[NumDice]
BellmanHeld == [t \in 0 .. NumDice |-> UNION {BellmanDice[n] : n \in t .. NumDice}]
BellmanTotal(K) == K[1] + K[2] + K[3] + K[4] + K[5] + K[6]

\* the greatest element of a non-empty set of integers, and of a non-empty set of values
BellmanMaxInt(S) == CHOOSE s \in S : \A t \in S : t <= s
BellmanMax(S) == CHOOSE v \in S : \A w \in S : ~Lt(v, w)

\* the mean of the six values vs[1] .. vs[6]
BellmanMean(vs) ==
    LET hi == vs[1][1] + vs[2][1] + vs[3][1] + vs[4][1] + vs[5][1] + vs[6][1]
        lo == vs[1][2] + vs[2][2] + vs[3][2] + vs[4][2] + vs[5][2] + vs[6][2]
        rest == ((hi % 6) * Scale + lo) \div 6
    IN  <<(hi \div 6) + (rest \div Scale), rest % Scale>>

\* the value of holding K and rolling the other dice one at a time, V being the
\* value of each configuration after the roll
RECURSIVE BellmanRoll(_, _)
BellmanStage(T, t) ==
    [K \in BellmanHeld[t] |->
        IF BellmanTotal(K) > t THEN T[K]
        ELSE BellmanMean([f \in Faces |-> T[[K EXCEPT ![f] = @ + 1]]])] @@ <<>>

BellmanRoll(V, t) ==
    IF t = NumDice THEN V ELSE BellmanStage(BellmanRoll(V, t + 1), t)

\* the greatest Q[K] over the dice K that can be kept from D
BellmanBestKeep(Q, D) ==
    BellmanMax({Q[<<k1, k2, k3, k4, k5, k6>>] :
                    k1 \in 0 .. D[1], k2 \in 0 .. D[2], k3 \in 0 .. D[3],
                    k4 \in 0 .. D[4], k5 \in 0 .. D[5], k6 \in 0 .. D[6]})

\* max over c in C of score(D, c), 0 for the empty set
BellmanImmediate(D, C) ==
    BellmanMaxInt({0} \cup {score(D, c).score : c \in {x \in Categories : contains(C, x)}})

\* V(D, 0, C), V(D, 1, C), V(D, 2, C)
BellmanV0 == [C \in AvailableSets |-> [D \in BellmanConfigs |-> F64(BellmanImmediate(D, C))]]
BellmanQ1 == [C \in AvailableSets |-> BellmanRoll(BellmanV0[C], 0)]
BellmanV1 ==
    [C \in AvailableSets |-> [D \in BellmanConfigs |->
        IF C = EMPTY THEN F64(0)
        ELSE BellmanMax({BellmanV0[C][D], BellmanBestKeep(BellmanQ1[C], D)})]]
BellmanQ2 == [C \in AvailableSets |-> BellmanRoll(BellmanV1[C], 0)]
BellmanV2 ==
    [C \in AvailableSets |-> [D \in BellmanConfigs |->
        IF C = EMPTY THEN F64(0)
        ELSE BellmanMax({BellmanV0[C][D], BellmanBestKeep(BellmanQ2[C], D)})]]
BellmanV(D, r, C) == IF r = 0 THEN BellmanV0[C][D] ELSE IF r = 1 THEN BellmanV1[C][D] ELSE BellmanV2[C][D]

-----------------------------------------------------------------------------
(* The claims *)

\* C1: for every configuration D, rolls-remaining r in {0,1,2} and category set C,
\* TurnSolver::expected_value(D, r, C) equals the Bellman value V(D, r, C): 0 for
\* the empty set, the greatest immediate score for r = 0, and for r > 0 the larger
\* of that score and the greatest, over the valid keeps of D, of the
\* probability-weighted average of V(D', r - 1, C) over the outcomes of the roll.
C1_ExpectedValueIsBellman ==
    response.op = "expected_value" =>
        response.ev = BellmanV(config, rolls_remaining, available)

\* a call with two rolls left and several categories whose value is above every
\* immediate score: the continuation decides it
C1_Witness ==
    /\ response.op = "expected_value"
    /\ rolls_remaining = 2
    /\ available = all
    /\ Gt(response.ev, F64(max_score(config, available)))


\* C2: with a non-empty category set, analyze recommends Reroll exactly when rolls
\* remain and continue_value is strictly above the best immediate score, and Score
\* in every other case; expected_value is continue_value with Reroll and the best
\* immediate score with Score.
C2_BestImmediate ==
    BellmanMaxInt({response.analysis.category_values[i].immediate_score :
                       i \in DOMAIN response.analysis.category_values})

C2_RecommendationFollowsComparison ==
    (response.op = "analyze" /\ ~is_empty(available)) =>
        /\ response.analysis.best_immediate.some
        /\ response.analysis.best_immediate.score = C2_BestImmediate
        /\ response.analysis.recommendation.kind \in {"Reroll", "Score"}
        /\ response.analysis.recommendation.kind = "Reroll" <=>
              /\ rolls_remaining > 0
              /\ Gt(response.analysis.continue_value, F64(C2_BestImmediate))
        /\ response.analysis.recommendation.kind = "Reroll" =>
              /\ response.analysis.expected_value = response.analysis.continue_value
              /\ response.analysis.recommendation.keep = response.analysis.optimal_keep
        /\ response.analysis.recommendation.kind = "Score" =>
              /\ response.analysis.expected_value = F64(C2_BestImmediate)
              /\ score(config, response.analysis.recommendation.category).score
                     = C2_BestImmediate

\* rolls remain and the continuation equals the best immediate score: Score
C2_Witness ==
    /\ response.op = "analyze"
    /\ ~is_empty(available)
    /\ rolls_remaining > 0
    /\ response.analysis.continue_value = F64(C2_BestImmediate)
    /\ response.analysis.recommendation.kind = "Score"

\* C3: for every configuration and category set the expected value does not
\* decrease when one more roll remains: V(D, 0, C) <= V(D, 1, C) <= V(D, 2, C).
C3_MonotoneInRolls ==
    (response.op = "expected_value" /\ rolls_remaining < MAX_ROLLS) =>
        ~Gt(response.ev,
            expected_value(cache, config, rolls_remaining + 1, available))

\* one roll left, the value above every immediate score and below that of two rolls
C3_Witness ==
    /\ response.op = "expected_value"
    /\ rolls_remaining = 1
    /\ Gt(response.ev, F64(max_score(config, available)))
    /\ Lt(response.ev, expected_value(cache, config, 2, available))

\* the sum of the dice of c as an unbounded integer
C4_PlainSum(c) ==
    c[1] + 2 * c[2] + 3 * c[3] + 4 * c[4] + 5 * c[5] + 6 * c[6]

\* the score of category for c in unbounded integers, from the rules of the game
C4_PlainScore(c, category) ==
    IF category <= Sixes THEN (category + 1) * c[category + 1]
    ELSE IF category = ThreeOfAKind THEN (IF max_count(c) >= 3 THEN C4_PlainSum(c) ELSE 0)
    ELSE IF category = FourOfAKind THEN (IF max_count(c) >= 4 THEN C4_PlainSum(c) ELSE 0)
    ELSE IF category = Chance THEN C4_PlainSum(c)
    ELSE score(c, category).score

\* C4: expected_value returns a value in [0, 50], and every immediate score of the
\* scoring function is an integer in [0, 50], the 8-bit arithmetic never wrapping.
C4_ValuesWithinBounds ==
    /\ response.op = "expected_value" =>
          /\ ~Lt(response.ev, F64(0))
          /\ ~Gt(response.ev, F64(50))
    /\ \A category \in Categories :
          /\ score(config, category).score \in 0 .. 50
          /\ score(config, category).score = C4_PlainScore(config, category)

\* a value at the upper bound: five of a kind with its category available
C4_Witness ==
    /\ response.op = "expected_value"
    /\ rolls_remaining > 0
    /\ response.ev = F64(50)

\* C5: with the empty category set expected_value returns 0, and analyze returns
\* expected_value 0 and an empty category_values list, whatever rolls remain.
C5_EmptySetIsZero ==
    is_empty(available) =>
        /\ response.op = "expected_value" => response.ev = F64(0)
        /\ response.op = "analyze" =>
              /\ response.analysis.expected_value = F64(0)
              /\ response.analysis.category_values = <<>>

\* analyze of the empty set with rolls left
C5_Witness ==
    /\ is_empty(available)
    /\ response.op = "analyze"
    /\ rolls_remaining = MAX_ROLLS
    /\ response.analysis.category_values = <<>>

\* C6: with the empty category set the action analyze returns is a distinguished
\* "no recommendation" value: not Score(Chance), and none of the actions analyze
\* returns for a non-empty category set.
C6_EmptySetActionIsDistinguished ==
    (response.op = "analyze" /\ is_empty(available)) =>
        /\ response.analysis.recommendation # Action_score(Chance)
        /\ \A avail \in AvailableSets \ {EMPTY} : \A rolls \in 0 .. MAX_ROLLS :
              analyze(cache, config, rolls, avail).recommendation
                  # response.analysis.recommendation

\* C7: every expected value computed with rolls remaining and a non-empty category
\* set is stored in the cache under (configuration index, rolls-remaining,
\* category-set bits), so that a later query is answered with the stored value.
C7_ComputedValueIsCached ==
    (response.op = "expected_value" /\ rolls_remaining > 0 /\ ~is_empty(available)) =>
        /\ CacheKey_new(config, rolls_remaining, available) \in DOMAIN cache
        /\ cache[CacheKey_new(config, rolls_remaining, available)] = response.ev

\* C8: the results depend on (D, r, C) alone: a solver that has served earlier
\* expected_value, analyze and clear_cache calls returns for a state what a fresh
\* solver returns for it.
C8_ResultsDependOnStateOnly ==
    /\ response.op = "expected_value" =>
          response.ev = expected_value(EmptyCache, config, rolls_remaining, available)
    /\ response.op = "analyze" =>
          response.analysis = analyze(EmptyCache, config, rolls_remaining, available)

\* a call served by a solver that had served calls before it, for a state with
\* rolls left whose value the continuation decides
C8_Witness ==
    /\ response.op = "expected_value"
    /\ response.reused
    /\ rolls_remaining > 0
    /\ Gt(response.ev, F64(max_score(config, available)))

\* the categories of a category_values list
C9_Listed(category_values) ==
    {category_values[i].category : i \in DOMAIN category_values}

\* C9: the expected_value analyze reports for an available category c is the value
\* of the turn played for c alone, which is expected_value(D, r, {c}) of the
\* whole-turn solver; with no roll left it is the immediate score of c.
C9_CategoryValueIsSingletonValue ==
    (response.op = "analyze" /\ ~is_empty(available)) =>
        /\ C9_Listed(response.analysis.category_values)
               = {category \in Categories : contains(available, category)}
        /\ \A i \in DOMAIN response.analysis.category_values :
              /\ response.analysis.category_values[i].expected_value
                     = BellmanV(config, rolls_remaining,
                                mask(response.analysis.category_values[i].category))
              /\ response.analysis.category_values[i].expected_value
                     = expected_value(cache, config, rolls_remaining,
                                      mask(response.analysis.category_values[i].category))
              /\ rolls_remaining = 0 =>
                     response.analysis.category_values[i].expected_value
                         = F64(response.analysis.category_values[i].immediate_score)

\* two rolls left, every category available, one of them worth more than its
\* immediate score
C9_Witness ==
    /\ response.op = "analyze"
    /\ rolls_remaining = MAX_ROLLS
    /\ available = all
    /\ \E i \in DOMAIN response.analysis.category_values :
           Gt(response.analysis.category_values[i].expected_value,
              F64(response.analysis.category_values[i].immediate_score))


\* the sum of values[lo .. hi]
RECURSIVE C10_Sum(_, _, _)
C10_Sum(values, lo, hi) ==
    IF lo > hi THEN 0
    ELSE IF lo = hi THEN values[lo]
         ELSE C10_Sum(values, lo, (lo + hi) \div 2)
                  + C10_Sum(values, (lo + hi) \div 2 + 1, hi)

\* the number of ordered rolls that take kept to the configuration of index idx
C10_Ways(kept, idx) ==
    IF transition_probability(kept, from_index(idx), dice_to_roll(kept)).some
    THEN multinomial_coefficient([i \in 1 .. 6 |-> from_index(idx)[i] - kept[i]])
    ELSE 0

\* 6^k
RECURSIVE C10_PowerOfSix(_)
C10_PowerOfSix(k) == IF k = 0 THEN 1 ELSE 6 * C10_PowerOfSix(k - 1)

\* C10: for every configuration and valid keep pattern of it, with k = 5 - total
\* kept, transition_probability(kept, target, k) summed over the 252 targets is 1
\* (the multinomial coefficients of the needed rolls sum to 6^k), the entries of
\* the transition table for that key sum to 1, and for keep-all the table holds
\* one target, the configuration itself, with probability 1.
C10_TransitionsSumToOne ==
    /\ response.op = "transition_sum" =>
          /\ response.total = ONE
          /\ C10_Sum([idx \in 0 .. COUNT - 1 |-> C10_Ways(partial, idx)], 0, COUNT - 1)
                 = C10_PowerOfSix(dice_to_roll(partial))
    /\ response.op = "get" =>
          /\ C10_Sum([i \in DOMAIN response.entries |-> response.entries[i].probability],
                     1, Len(response.entries)) = ONE
          /\ partial = keep_all(config) =>
                 response.entries = <<[target |-> to_index(config), probability |-> ONE]>>

\* the table read for a keep-all pattern
C10_Witness ==
    /\ response.op = "get"
    /\ partial = keep_all(config)
    /\ Len(response.entries) = 1



\* n!
RECURSIVE C11_Factorial(_)
C11_Factorial(n) == IF n = 0 THEN 1 ELSE n * C11_Factorial(n - 1)

\* the product of counts[f]! over the six faces
C11_FactorialProduct(counts) ==
    C11_Factorial(counts[1]) * C11_Factorial(counts[2]) * C11_Factorial(counts[3])
        * C11_Factorial(counts[4]) * C11_Factorial(counts[5]) * C11_Factorial(counts[6])

\* C11: for k in 0 .. 5 dice, roll_outcome_probability(counts, k) is
\* (k! / product of counts[f]!) / 6^k for every count vector summing to k, the
\* probabilities of all those vectors sum to 1, and for k = 0 the one outcome, the
\* all-zero vector, has probability 1.
C11_RollOutcomeProbability ==
    /\ response.op = "roll_outcome_probability" =>
          /\ response.probability * C11_FactorialProduct(response.rolled_counts)
                 * C10_PowerOfSix(response.dice_rolled)
                 = C11_Factorial(response.dice_rolled) * ONE
          /\ response.dice_rolled = 0 =>
                 response.rolled_counts = DiceConfig_ZERO /\ response.probability = ONE
    /\ response.op = "roll_sum" => response.total = ONE

\* three dice falling as a pair and a single: 3 orders of 216
C11_Witness ==
    /\ response.op = "roll_outcome_probability"
    /\ response.dice_rolled = 3
    /\ response.rolled_counts = <<2, 0, 0, 1, 0, 0>>
    /\ response.probability * 216 = 3 * ONE

\* C12: for every configuration and valid keep pattern of it the built table holds
\* a non-empty entry list under (kept counts, 5 - total kept); a target is in the
\* list exactly when transition_probability for it is defined and not zero, each
\* target at most once, so get never falls back to the empty slice.
C12_TableHoldsEveryKeep ==
    response.op = "get" =>
        /\ PartialKey(partial) \in DOMAIN TRANSITION_TABLE
        /\ Len(response.entries) > 0
        /\ \A idx \in 0 .. COUNT - 1 :
              (\E i \in DOMAIN response.entries : response.entries[i].target = idx)
                  <=> /\ transition_probability(partial, from_index(idx),
                                                dice_to_roll(partial)).some
                      /\ transition_probability(partial, from_index(idx),
                                                dice_to_roll(partial)).value > 0
        /\ \A i, j \in DOMAIN response.entries :
              response.entries[i].target = response.entries[j].target => i = j
        /\ \A i \in DOMAIN response.entries :
              response.entries[i].probability
                  = transition_probability(partial, from_index(response.entries[i].target),
                                           dice_to_roll(partial)).value

\* two dice kept of a configuration: the 56 ways three dice fall
C12_Witness ==
    /\ response.op = "get"
    /\ total_kept(partial) = 2
    /\ partial # keep_all(config)
    /\ Len(response.entries) = 56
\* C13: TransitionTable::build runs at most once however the threads' first
\* accesses interleave (at most one thread ever is or was its builder), every
\* reference a thread holds, and the stored value once the Once is Complete, is the
\* fully built table, every get through such a reference returns the entries of
\* that table, and once Complete the lock is never written again
C13_BuiltOnceSharedReadOnly ==
    /\ [](/\ Cardinality({t \in 1 .. MaxThreads : threads[t].pc = "build"})
                + Cardinality({t \in 1 .. MaxThreads : threads[t].built >= 1}) <= 1
          /\ \A t \in 1 .. MaxThreads :
                 /\ threads[t].built <= 1
                 /\ threads[t].pc = "ready" => threads[t].table = TRANSITION_TABLE
          /\ once.state = "Complete" => once.value = TRANSITION_TABLE
          /\ once.state = "Incomplete" => \A t \in 1 .. MaxThreads : threads[t].pc = "start"
          /\ response # NoResponse =>
                 /\ response.entries = TRANSITION_TABLE[PartialKey(response.keep)]
                 /\ Len(response.entries) > 0)
    /\ [][once.state = "Complete" => once' = once]_vars

\* the builder has finished, a thread that arrived during the build is still
\* waiting, and a third thread has read entries through its reference
C13_Witness ==
    \E b \in 1 .. MaxThreads : \E w \in 1 .. MaxThreads :
        /\ threads[b].built = 1
        /\ threads[w].pc = "wait"
        /\ once.state = "Complete"
        /\ response # NoResponse
        /\ response.thread \notin {b, w}
        /\ response.keep = keep_all(config)
        /\ Len(response.entries) = 1

\* C14 (enumeration): every vector of six counts in 0..5 summing to 5
C14_Configurations ==
    {c \in [Faces -> 0 .. NumDice] : c[1] + c[2] + c[3] + c[4] + c[5] + c[6] = NumDice}

\* C14 (order): a comes strictly before b in the lexicographic order of the counts
C14_LexLess(a, b) ==
    \E f \in Faces : a[f] < b[f] /\ \A g \in 1 .. (f - 1) : a[g] = b[g]

\* C14 (enumeration): ALL_CONFIGS lists 252 configurations, every vector of six
\* counts summing to 5, each before the next in lexicographic order
C14_EnumerationIncreasing ==
    /\ Len(ALL_CONFIGS) = 252
    /\ ConfigSet = C14_Configurations
    /\ \A i \in 1 .. 251 : C14_LexLess(ALL_CONFIGS[i], ALL_CONFIGS[i + 1])

\* C14: from_index followed by to_index returns the index, to_index of any
\* configuration (every from_dice result included) is below 252 and from_index
\* returns the configuration from it, and the enumeration lists 252 distinct
\* configurations, every vector of six counts summing to 5, in strictly increasing
\* lexicographic order
C14_IndexBijection ==
    /\ config # DiceConfig_ZERO =>
           /\ config \in C14_Configurations
           /\ to_index(config) \in 0 .. 251
           /\ from_index(to_index(config)) = config
    /\ response # NoResponse /\ response.op = "from_index" =>
           to_index(config) = response.index
    /\ response # NoResponse /\ response.op = "to_index" =>
           /\ response.index \in 0 .. 251
           /\ from_index(response.index) = config
    /\ response # NoResponse /\ response.op = "from_dice" =>
           \A f \in Faces :
               config[f] = Cardinality({i \in 1 .. NumDice : response.dice[i] = f})
    /\ C14_EnumerationIncreasing

\* the last index was converted to its configuration, five ones
C14_Witness ==
    /\ response # NoResponse
    /\ response.op = "from_index"
    /\ response.index = 251
    /\ config = <<5, 0, 0, 0, 0, 0>>

\* C15 (total): the multiplicities of the 252 configurations, computed and
\* precomputed, sum to 6^5 = 7776
C15_TotalMultiplicity ==
    /\ C10_Sum([i \in 1 .. COUNT |-> multiplicity(ALL_CONFIGS[i])], 1, COUNT) = 7776
    /\ C10_Sum(CONFIG_MULTIPLICITIES, 1, COUNT) = 7776
    /\ C10_PowerOfSix(5) = 7776

\* C15: multiplicity() and the CONFIG_MULTIPLICITIES entry at the configuration's
\* index both are 5! divided by the product of count(f)! over the six faces, and
\* the multiplicities of the 252 configurations sum to 7776
C15_Multiplicity ==
    /\ response.op = "multiplicity" =>
           /\ response.multiplicity * C11_FactorialProduct(config) = C11_Factorial(5)
           /\ response.precomputed = response.multiplicity
    /\ C15_TotalMultiplicity

\* the multiplicity of a pair and a triple was asked for: 5! / (2! 3!) = 10
C15_Witness ==
    /\ response.op = "multiplicity"
    /\ config = <<2, 0, 0, 3, 0, 0>>
    /\ response.multiplicity = 10
    /\ response.precomputed = 10

\* C17: for an upper-section category with face f the solver's scoring function
\* returns score f * count(f) and valid = true, also when count(f) = 0
C17_UpperSection ==
    response.op = "score" /\ response.category \in Ones .. Sixes =>
        /\ response.result.score = (response.category + 1) * config[response.category + 1]
        /\ response.result.valid = TRUE

\* Fives was scored on a configuration without a five: score 0, valid
C17_Witness ==
    /\ response.op = "score"
    /\ response.category = Fives
    /\ config[5] = 0
    /\ response.result = [score |-> 0, valid |-> TRUE]

\* C18: is_full_house holds, and the full-house category is valid, exactly when
\* some face has count 3 and a different face has count 2; the score then is 25,
\* otherwise 0 and invalid; counts [0,0,3,0,2,0] score 25
C18_FullHouse ==
    /\ config # DiceConfig_ZERO =>
           (is_full_house(config)
               <=> \E f \in Faces : \E g \in Faces \ {f} : config[f] = 3 /\ config[g] = 2)
    /\ response.op = "score" /\ response.category = FullHouse =>
           /\ response.result.valid
                  <=> \E f \in Faces : \E g \in Faces \ {f} : config[f] = 3 /\ config[g] = 2
           /\ response.result.score = IF response.result.valid THEN 25 ELSE 0
    /\ score(<<0, 0, 3, 0, 2, 0>>, FullHouse) = [score |-> 25, valid |-> TRUE]

\* the full-house category was scored on three threes and two fives
C18_Witness ==
    /\ response.op = "score"
    /\ response.category = FullHouse
    /\ config = <<0, 0, 3, 0, 2, 0>>
    /\ response.result.score = 25

\* C19 (runs): every face of first .. last is present
C19_HasRun(c, first, last) == \A face \in first .. last : c[face] >= 1

\* C19: small straight is valid with 30 exactly when one of 1-2-3-4, 2-3-4-5,
\* 3-4-5-6 is present, large straight is valid with 40 exactly when 1-2-3-4-5 or
\* 2-3-4-5-6 is, otherwise they are invalid with 0; a valid large straight is a
\* valid small straight
C19_Straights ==
    /\ response.op = "score" /\ response.category = SmallStraight =>
           /\ response.result.valid <=> \E first \in 1 .. 3 : C19_HasRun(config, first, first + 3)
           /\ response.result.score = IF response.result.valid THEN 30 ELSE 0
    /\ response.op = "score" /\ response.category = LargeStraight =>
           /\ response.result.valid <=> \E first \in 1 .. 2 : C19_HasRun(config, first, first + 4)
           /\ response.result.score = IF response.result.valid THEN 40 ELSE 0
           /\ response.result.valid => score(config, SmallStraight).valid

\* small straight was scored on 3-4-5-6 with a second six
C19_Witness ==
    /\ response.op = "score"
    /\ response.category = SmallStraight
    /\ config = <<0, 0, 1, 1, 1, 2>>
    /\ response.result = [score |-> 30, valid |-> TRUE]

\* C16 (count): the product of count(f) + 1 over the faces below face, 1 for face 1
RECURSIVE C16_Radix(_, _)
C16_Radix(c, face) == IF face = 1 THEN 1 ELSE (c[face - 1] + 1) * C16_Radix(c, face - 1)

\* C16 (order): the n-th pattern, from 0, counting in mixed radix with face 1 the
\* fastest digit
C16_Pattern(c, n) == [face \in 1 .. 6 |-> (n \div C16_Radix(c, face)) % (c[face] + 1)]

\* C16: the iterator of iter_valid_for yields the patterns with 0 <= kept[f] <=
\* count(f) in mixed-radix order with face 1 fastest, each once, from keep-none to
\* keep-all: the product of count(f) + 1 patterns, which is count_valid_for; every
\* yielded pattern is valid for the configuration; it returns None only after the
\* last pattern and from then on returns None
C16_IterValidFor ==
    /\ Len(response.yielded) <= C16_Radix(config, 7)
    /\ C16_Radix(config, 7) = count_valid_for(config)
    /\ \A n \in 1 .. Len(response.yielded) :
           /\ response.yielded[n] = C16_Pattern(config, n - 1)
           /\ is_valid_for(response.yielded[n], config)
           /\ \A f \in Faces : response.yielded[n][f] \in 0 .. config[f]
           /\ \A k \in 1 .. (n - 1) : response.yielded[k] # response.yielded[n]
    /\ Len(response.yielded) >= 1 => response.yielded[1] = KEEP_NONE
    /\ Len(response.yielded) = C16_Radix(config, 7) =>
           response.yielded[Len(response.yielded)] = keep_all(config)
    /\ response.op = "next" /\ response.some =>
           response.item = response.yielded[Len(response.yielded)]
    /\ response.op = "next" /\ ~response.some =>
           Len(response.yielded) = C16_Radix(config, 7)
    /\ response.nones >= 1 => response.op = "next" /\ ~response.some
    /\ response.op = "iter_valid_for" =>
           {p \in [Faces -> 0 .. NumDice] : \A f \in Faces : p[f] <= config[f]}
                   = {C16_Pattern(config, n) : n \in 0 .. (C16_Radix(config, 7) - 1)}

\* the iterator for dice 1, 2, 3, 3, 5 has yielded its 24 patterns and returned
\* None twice
C16_Witness ==
    /\ config = <<1, 1, 2, 0, 1, 0>>
    /\ response.op = "next"
    /\ ~response.some
    /\ response.nones = 2
    /\ Len(response.yielded) = 24
    /\ iterator.done

\* C20: for every ordered roll of five dice and every category, scoring::score
\* (score_config on DiceConfig::from_dice(dice)) returns the same score and the
\* same validity flag as the array-based score of scoring.rs
C20_ConfigScoringMatchesArrayScoring ==
    response.op = "scoring_rs_score" =>
        /\ response.config_based.score = response.result.score
        /\ response.config_based.valid = response.result.valid

\* C20 (scores): the two scoring functions return the same score for every roll
\* and category, and the same validity flag outside the upper section
C20_ScoresMatch ==
    response.op = "scoring_rs_score" =>
        /\ response.config_based.score = response.result.score
        /\ response.category \notin Ones .. Sixes =>
               response.config_based.valid = response.result.valid
        /\ response.category \in Ones .. Sixes =>
               /\ response.result.valid
               /\ response.config_based.valid <=> response.result.score > 0

\* C21: try_from_dice answers InvalidDieValue with the value and the zero-based
\* position of the first die outside 1..6 and makes no configuration; when every
\* die is in 1..6 it answers the configuration whose counts are the numbers of dice
\* showing each face, five in all.
C21_TryFromDiceValidates ==
    response.op = "try_from_dice" =>
        IF \E i \in 1 .. NumDice : response.dice[i] \notin Faces
        THEN /\ ~response.result.ok
             /\ response.result.error = "InvalidDieValue"
             /\ \E i \in 1 .. NumDice :
                    /\ response.dice[i] \notin Faces
                    /\ \A j \in 1 .. (i - 1) : response.dice[j] \in Faces
                    /\ response.result.position = i - 1
                    /\ response.result.value = response.dice[i]
             /\ DOMAIN response.result = {"ok", "error", "value", "position"}
             /\ config \in {from_dice(<<1, 2, 3, 3, 5>>), from_dice(<<6, 6, 6, 6, 6>>)}
        ELSE /\ response.result.ok
             /\ \A f \in Faces :
                    response.result.config[f] =
                        Cardinality({i \in 1 .. NumDice : response.dice[i] = f})
             /\ response.result.config[1] + response.result.config[2]
                    + response.result.config[3] + response.result.config[4]
                    + response.result.config[5] + response.result.config[6] = 5
             /\ config = response.result.config

\* the second of five dice is a 7; a 0 and a 255 follow it
C21_FirstInvalidDieReported ==
    /\ response.op = "try_from_dice"
    /\ response.dice = <<1, 7, 0, 2, 255>>
    /\ response.result = [ok |-> FALSE, error |-> "InvalidDieValue", value |-> 7, position |-> 1]

\* C22: for every vector of six u8 counts, DiceConfig::from_counts returns an error
\* when the counts do not sum to 5 or some count is outside 0..5, and otherwise
\* returns the configuration with exactly those counts, so that every configuration
\* it makes has its counts in 0..5 and a true sum of 5.
C22_FromCountsRejectsMalformed ==
    response.op = "from_counts" =>
        IF \/ response.counts[1] + response.counts[2] + response.counts[3]
                  + response.counts[4] + response.counts[5] + response.counts[6] # 5
           \/ \E f \in Faces : response.counts[f] \notin 0 .. 5
        THEN /\ ~response.result.ok
             /\ response.result.error = "InvalidDieValue"
        ELSE /\ response.result.ok
             /\ response.result.config = response.counts
             /\ config = response.counts

\* C23: every invalid keep pattern is rejected with InvalidKeepPattern naming an
\* offending face in 1..6 with the requested and the available count, requested
\* above available: PartialDice::new rejects exactly the patterns keeping more of
\* a face than the configuration has, KeepPattern::from_counts exactly the patterns
\* keeping more than five dice, and neither leaves a partial state on error.
C23_InvalidKeepNamesOffendingFace ==
    /\ response.op = "new" =>
           IF response.result.ok
           THEN partial # NoPartial /\ is_valid_for(partial, config)
           ELSE /\ partial = NoPartial
                /\ response.result.error = "InvalidKeepPattern"
                /\ response.result.face \in Faces
                /\ response.result.available = count(config, response.result.face)
                /\ response.result.requested > response.result.available
    /\ response.op = "keep_from_counts" =>
           IF response.kept[1] + response.kept[2] + response.kept[3]
                  + response.kept[4] + response.kept[5] + response.kept[6] > 5
           THEN /\ ~response.result.ok
                /\ response.result.error = "InvalidKeepPattern"
                /\ response.result.face \in Faces
                /\ response.result.requested > response.result.available
                /\ partial = NoPartial
           ELSE /\ response.result.ok
                /\ response.result.keep = response.kept

\* C24: for every configuration mode_face returns a face of 1..6 whose count is the
\* maximum count, and the highest such face when several share the maximum.
C24_ModeFaceHighestOfTied ==
    response.op = "mode_face" =>
        /\ response.face \in Faces
        /\ count(config, response.face) = max_count(config)
        /\ \A face \in Faces :
               count(config, face) = max_count(config) => face <= response.face

\* C25: with dice 1, 2, 3, 4, 6, one roll remaining and only the large straight
\* available, analyze recommends a reroll keeping 1, 2, 3, 4 and rolling the 6
\* again, and its expected value is exactly 40 * (1 / 6).
C25_StraightDrawMissingFive ==
    (/\ response.op = "analyze"
     /\ config = from_dice(<<1, 2, 3, 4, 6>>)
     /\ rolls_remaining = 1
     /\ available = mask(LargeStraight)) =>
        /\ response.analysis.recommendation = Action_reroll(<<1, 1, 1, 1, 0, 0>>)
        /\ dice_to_roll(response.analysis.recommendation.keep) = 1
        /\ response.analysis.expected_value = f64_mul(Scale \div 6, F64(40))

\* the straight draw has been analysed and a reroll recommended
C25_StraightDrawAnalysed ==
    /\ response.op = "analyze"
    /\ config = from_dice(<<1, 2, 3, 4, 6>>)
    /\ rolls_remaining = 1
    /\ available = mask(LargeStraight)
    /\ response.analysis.recommendation.kind = "Reroll"

\* C26: when several keep patterns reach the maximal continuation value, best_keep
\* returns the first of them in iter_valid_for order: a later pattern replaces the
\* best so far only with a strictly greater value.
C26_FirstOfTiedKeeps ==
    (response.op = "analyze" /\ rolls_remaining > 0 /\ ~is_empty(available)) =>
        \E i \in 1 .. Len(ValidKeeps[config]) :
            /\ response.analysis.optimal_keep = ValidKeeps[config][i]
            /\ response.analysis.continue_value =
                   keep_ev(cache, ValidKeeps[config][i], rolls_remaining, available)
            /\ \A j \in 1 .. Len(ValidKeeps[config]) :
                   /\ ~Gt(keep_ev(cache, ValidKeeps[config][j], rolls_remaining, available),
                          response.analysis.continue_value)
                   /\ j < i => Lt(keep_ev(cache, ValidKeeps[config][j], rolls_remaining,
                                          available),
                                  response.analysis.continue_value)

\* keeping 1, 2, 3, 4 and keeping 2, 3, 4, 6 of the dice 1, 2, 3, 4, 6 are worth the
\* same for the large straight; the first of the two in iteration order is returned
C26_TiedKeepsFirstReturned ==
    /\ response.op = "analyze"
    /\ config = from_dice(<<1, 2, 3, 4, 6>>)
    /\ rolls_remaining = 1
    /\ available = mask(LargeStraight)
    /\ keep_ev(cache, <<0, 1, 1, 1, 0, 1>>, 1, available) = response.analysis.continue_value
    /\ response.analysis.optimal_keep = <<1, 1, 1, 1, 0, 0>>
    /\ \E i, j \in 1 .. Len(ValidKeeps[config]) :
           /\ i < j
           /\ ValidKeeps[config][i] = <<1, 1, 1, 1, 0, 0>>
           /\ ValidKeeps[config][j] = <<0, 1, 1, 1, 0, 1>>

\* C27: when analyze recommends Score for a non-empty set, the recommended category
\* is an available one with the maximal immediate score, the one best_immediate
\* reports, and among several with that score the one of the highest index.
C27_ScoreBestImmediateCategory ==
    (/\ response.op = "analyze"
     /\ ~is_empty(available)
     /\ response.analysis.recommendation.kind = "Score") =>
        /\ contains(available, response.analysis.recommendation.category)
        /\ response.analysis.best_immediate =
               [some |-> TRUE, category |-> response.analysis.recommendation.category,
                score |-> score(config, response.analysis.recommendation.category).score]
        /\ \A category \in Categories :
               contains(available, category) =>
                   /\ score(config, category).score
                          <= score(config, response.analysis.recommendation.category).score
                   /\ score(config, category).score
                          = score(config, response.analysis.recommendation.category).score
                      => category <= response.analysis.recommendation.category

\* 1, 1, 2, 2, 3 scores 0 for three of a kind, four of a kind and full house alike:
\* the full house, the last of the three, is recommended
C27_TiedCategoriesLastRecommended ==
    /\ response.op = "analyze"
    /\ config = from_dice(<<1, 1, 2, 2, 3>>)
    /\ rolls_remaining = 0
    /\ available = with(with(with(EMPTY, ThreeOfAKind), FourOfAKind), FullHouse)
    /\ response.analysis.recommendation = Action_score(FullHouse)

\* C28: when analyze recommends a reroll, rolls remain, the keep pattern is valid for
\* the configuration and keeps fewer than five dice: keeping all the dice is never
\* recommended as a reroll, with one roll remaining or with two.
C28_RerollKeepsFewerThanFive ==
    (response.op = "analyze" /\ response.analysis.recommendation.kind = "Reroll") =>
        /\ rolls_remaining \in 1 .. MAX_ROLLS
        /\ is_valid_for(response.analysis.recommendation.keep, config)
        /\ total_kept(response.analysis.recommendation.keep) < NumDice
        /\ response.analysis.recommendation.keep # keep_all(config)
        /\ dice_to_roll(response.analysis.recommendation.keep) >= 1

\* two rolls remain and keeping all the dice is itself worth more than scoring now,
\* yet the recommended reroll rolls at least one die
C28_KeepAllWorthMoreThanScoring ==
    /\ response.op = "analyze"
    /\ rolls_remaining = 2
    /\ response.analysis.recommendation.kind = "Reroll"
    /\ Gt(keep_ev(cache, keep_all(config), 2, available),
          F64(response.analysis.best_immediate.score))
    /\ total_kept(response.analysis.recommendation.keep) < NumDice

\* C29: for a non-empty set the continue_value of an analysis is at least its best
\* immediate score, and equal to it when no rolls remain; Score is recommended
\* exactly when the two are equal.
C29_ContinueValueAtLeastImmediate ==
    (response.op = "analyze" /\ ~is_empty(available)) =>
        /\ ~Lt(response.analysis.continue_value, F64(response.analysis.best_immediate.score))
        /\ rolls_remaining = 0 =>
               response.analysis.continue_value = F64(response.analysis.best_immediate.score)
        /\ response.analysis.recommendation.kind = "Score" <=>
               response.analysis.continue_value = F64(response.analysis.best_immediate.score)

\* rolls remain and no keep is worth more than the positive score at hand
C29_ScoreWithRollsRemaining ==
    /\ response.op = "analyze"
    /\ ~is_empty(available)
    /\ rolls_remaining = 2
    /\ response.analysis.best_immediate.score > 0
    /\ response.analysis.continue_value = F64(response.analysis.best_immediate.score)
    /\ response.analysis.recommendation.kind = "Score"

\* the categories of a are categories of b
C30_Subset(a, b) == \A category \in Categories : contains(a, category) => contains(b, category)

\* C30: the expected value is monotone in the category set: for sets C within C' the
\* value of a state with C is at most its value with C'; and no category's reported
\* continuation value exceeds the whole-turn expected value of the same analysis.
C30_ValueMonotoneInCategories ==
    /\ response.op = "expected_value" =>
           \A larger \in AvailableSets :
               C30_Subset(available, larger) =>
                   ~Gt(response.ev, expected_value(cache, config, rolls_remaining, larger))
    /\ response.op = "analyze" =>
           \A i \in 1 .. Len(response.analysis.category_values) :
               ~Gt(response.analysis.category_values[i].expected_value,
                   response.analysis.expected_value)

\* with two rolls remaining the state is worth strictly more with all categories
\* than with the five of a kind and the catch-all, and with these strictly more than
\* with the five of a kind alone
C30_StrictlyMoreWithMoreCategories ==
    /\ response.op = "expected_value"
    /\ rolls_remaining = 2
    /\ available = with(with(EMPTY, Dicee), Chance)
    /\ Gt(expected_value(cache, config, 2, all), response.ev)
    /\ Gt(response.ev, expected_value(cache, config, 2, mask(Dicee)))

=============================================================================
